---- MODULE Spec2Model ----
(***************************************************************************)
(* easytemplate: the render pipeline of internal/template (Templator) and  *)
(* the engine entry points that drive it.                                  *)
(*                                                                         *)
(* Text (template bodies, script sources, rendered output) is a sequence   *)
(* of tokens <<kind, arg>>.  A token stands for the run of characters the  *)
(* regular expressions and the template executor treat as a unit:          *)
(*   <<"nl","">>          a newline                                        *)
(*   <<"open","">>        the opening fence  ```sjs                        *)
(*   <<"close","">>       the closing fence  sjs```                        *)
(*   <<"txt",s>>          literal text s                                   *)
(*   <<"field",f>>        the template action {{.Global.Name}} / {{.Local}}*)
(*   <<"lcref",v>>        {{.LocalComputed.v}}                             *)
(*   <<"gcref",v>>        {{.GlobalComputed.v}}                            *)
(*   <<"rcref",v>>        {{.RecursiveComputed.v}}                         *)
(*   <<"later-lcref",v>>  {{"{{.LocalComputed.v}}"}} (prints the action)   *)
(*   <<"later-rcref",v>>  {{"{{.RecursiveComputed.v}}"}}                   *)
(*   <<"later-recurse",N>> {{"{{recurse N}}"}}                             *)
(*   <<"tmplcall",n>>     {{templateString "n" .Local}}                    *)
(*   <<"recurse",N>>      {{recurse N}}                                    *)
(*   <<"canary",N>>       ~-~SPEAKEASY_RECURSE_CANARY_N~-~                 *)
(*   <<"bad","">>         an action whose execution fails                  *)
(*   <<"fn",n>>           {{n}}, a call of the template function n         *)
(*   <<"parseerr","">>    text the template parser rejects                 *)
(* and, inside a fence, the script statements                              *)
(*   <<"render",s>>       render("s")                                      *)
(*   <<"setLocal",v>>     context.LocalComputed.v = true                   *)
(*   <<"setGlobal",v>>    context.GlobalComputed.v = true                  *)
(*   <<"setRec",v>>       context.RecursiveComputed.v = true               *)
(*   <<"call",n>>         templateString("n", context.Local)               *)
(*   <<"trycall",n>>      try { templateString("n", ...) } catch (e) {}    *)
(*   <<"throw","">>       throw new Error()                                *)
(*   <<"unsetContext","">> context = undefined                             *)
(*   <<"callfile",n,o>>   templateFile("n", "o", context.Local)            *)
(*   <<"trycallfile",n,o>> try { templateFile("n", "o", ...) } catch (e) {} *)
(*   <<"function",n,"">>  function n() { ... }                             *)
(*   <<"loop","">>        while (true) {}                                  *)
(*   <<"register",n,f>>   registerTemplateFunc("n", f)                     *)
(*   <<"tryregister",n,f>> try { registerTemplateFunc("n", f) } catch {}   *)
(*   <<"unregister",n,"">> unregisterTemplateFunc("n")                     *)
(*   <<"tryunregister",n,"">> try { unregisterTemplateFunc("n") } catch {} *)
(***************************************************************************)
EXTENDS Integers, Sequences, FiniteSets, TLC

\* Number of top-level invocations made on one engine.
MaxCalls == 2

NL == <<"nl", "">>
OPEN == <<"open", "">>
CLOSE == <<"close", "">>

Kind(tok) == tok[1]
Arg(tok) == tok[2]

\* A computed store that does not exist (a nil / null goja.Value).
NoStore == 0 - 1

\* goja.Undefined() as the value of the VM binding `context`.
Undefined ==
    [id |-> 0 - 1, Global |-> "", Local |-> "", GlobalComputed |-> NoStore,
     LocalComputed |-> NoStore, RecursiveComputed |-> NoStore]

\* goja.Undefined() as the value of the VM binding `render`.
UndefinedRender == [c |-> 0 - 1]

\* The data handed to Engine.Init and to the top-level invocations.
GlobalData == {"Bob"}
LocalData == {"d1", "d2"}

(***************************************************************************)
(* The template files the read function serves.                            *)
(***************************************************************************)
TemplateNames ==
    {"plain", "scenario", "multi", "fail", "badscript", "badtmpl", "badparse",
     "outer", "outercatch", "viatmpl", "rec"}

\* The template files used for the pass loop: bodies with a recursion
\* directive, and bodies without one for comparison.
RecursionNames ==
    {"recstatic", "rec3static", "recok", "recfail", "reccatch", "recmore",
     "rectwice", "notfirst", "notfirst0", "rec0", "unclosed", "closefirst",
     "plain"}

\* The template files used for the error text: bodies whose execution
\* fails after a script block, directly or in a nested template, and bodies
\* whose script makes the invocation panic.
ErrorNames ==
    {"lines", "page2", "outerlines", "pct", "outerpct", "panics", "callpanics",
     "errfirst", "errbetween"}

\* The template files used for cancellation: a script that never ends, run
\* directly, by a nested invocation a script starts (with and without a
\* catch) and by one the template starts, and a script that ends at once.
CancelNames == {"spin", "callspin", "trycallspin", "tmplspin", "scenario"}

\* The files used for the entry points of the engine: template files, the
\* script files given to RunScript, the functions given to RunFunction, the
\* output files given to TemplateFile and the ones the write function
\* refuses.
EngineNames == {"plain", "scenario", "fail", "recstatic", "rectwice"}
ScriptFiles == {"setup.js", "broken.js", "local.js", "missing.js"}
MissingFiles == {"missing.js"}
FunctionNames == {"setup", "undefinedFn"}
OutFiles == {"out.txt", "readonly.txt"}
BadFiles == {"readonly.txt"}
FileData == {"d1"}

\* The template files used for the template-function table.
FuncTemplateNames == {"usefn", "regtest", "rereg", "unreg", "regbad", "override"}

ReadFunc(path) ==
    CASE path = "plain" ->
           << <<"field", "Global.Name">>, NL, <<"field", "Local">> >>
      [] path = "scenario" ->
           << <<"field", "Global.Name">>, NL, OPEN, NL, <<"render", "X">>, NL, CLOSE, NL >>
      [] path = "multi" ->
           << OPEN, NL, CLOSE, <<"txt", "a">>,
              OPEN, NL, <<"render", "A">>, NL, <<"setLocal", "v1">>, NL,
                    <<"render", "B">>, NL, <<"render", "C">>, NL, CLOSE, NL,
              <<"txt", "b">>,
              OPEN, <<"render", "D">>, NL, <<"setGlobal", "g1">>, NL, CLOSE,
              <<"lcref", "v1">>, <<"gcref", "g1">> >>
      [] path = "fail" ->
           << <<"txt", "a">>, OPEN, NL, <<"render", "A">>, NL, <<"setLocal", "v2">>, NL,
              <<"throw", "">>, NL, CLOSE, NL,
              OPEN, <<"render", "B">>, <<"setGlobal", "g2">>, CLOSE >>
      [] path = "badscript" ->
           << OPEN, NL, <<"render", "A">>, NL, <<"txt", "syntax error">>, NL, CLOSE >>
      [] path = "badtmpl" ->
           << OPEN, <<"setLocal", "v2">>, <<"render", "A">>, CLOSE, NL, <<"bad", "">> >>
      [] path = "badparse" ->
           << OPEN, <<"setLocal", "v2">>, CLOSE, <<"parseerr", "">> >>
      [] path = "outer" ->
           << OPEN, NL, <<"render", "A">>, NL, <<"setLocal", "v1">>, NL,
              <<"call", "multi">>, NL, <<"render", "B">>, NL, CLOSE, NL,
              OPEN, <<"call", "fail">>, <<"render", "C">>, CLOSE,
              <<"lcref", "v1">> >>
      [] path = "outercatch" ->
           << OPEN, NL, <<"render", "A">>, NL, <<"setLocal", "v1">>, NL,
              <<"trycall", "fail">>, NL, <<"render", "B">>, NL,
              <<"setLocal", "v3">>, NL, CLOSE, NL,
              OPEN, <<"trycall", "badtmpl">>, <<"render", "C">>, CLOSE,
              <<"lcref", "v1">>, <<"lcref", "v2">>, <<"lcref", "v3">> >>
      [] path = "viatmpl" ->
           << OPEN, <<"setLocal", "v1">>, <<"render", "A">>, CLOSE, NL,
              <<"tmplcall", "multi">>, NL, <<"lcref", "v1">>, <<"tmplcall", "badtmpl">> >>
      [] path = "rec" ->
           << <<"recurse", "1">>, NL,
              OPEN, <<"render", "A">>, NL, <<"setLocal", "v1">>, NL,
                    <<"setRec", "r1">>, CLOSE, NL,
              <<"lcref", "v1">> >>
      [] path = "recstatic" ->
           << <<"recurse", "1">>, NL, <<"txt", "s">> >>
      [] path = "rec3static" ->
           << <<"recurse", "3">>, NL, <<"txt", "s">> >>
      [] path = "recok" ->
           << <<"recurse", "2">>, NL,
              OPEN, <<"setRec", "r1">>, NL, <<"setLocal", "v1">>, NL,
                    <<"setGlobal", "g1">>, NL, <<"render", "A">>, CLOSE, NL,
              <<"later-rcref", "r1">>, <<"later-lcref", "v1">>,
              <<"tmplcall", "showrec">> >>
      [] path = "showrec" ->
           << <<"rcref", "r1">> >>
      [] path = "recfail" ->
           << <<"recurse", "1">>, NL,
              OPEN, <<"setRec", "r2">>, NL, <<"setLocal", "v2">>, NL,
                    <<"throw", "">>, CLOSE >>
      [] path = "reccatch" ->
           << <<"recurse", "1">>, NL,
              OPEN, <<"setLocal", "v1">>, NL, <<"setRec", "r1">>, NL,
                    <<"trycall", "recfail">>, CLOSE, NL,
              <<"later-lcref", "v1">>, <<"later-rcref", "r1">> >>
      [] path = "recmore" ->
           << <<"recurse", "1">>, NL, <<"later-recurse", "3">> >>
      [] path = "rectwice" ->
           << <<"recurse", "1">>, NL, <<"recurse", "1">> >>
      [] path = "notfirst" ->
           << <<"txt", "a">>, NL, <<"recurse", "1">>, NL,
              OPEN, <<"render", "A">>, CLOSE >>
      [] path = "notfirst0" ->
           << <<"txt", "a">>, NL, <<"recurse", "0">> >>
      [] path = "rec0" ->
           << <<"recurse", "0">>, NL, <<"txt", "s">> >>
      [] path = "unclosed" ->
           << <<"field", "Local">>, OPEN, NL, <<"txt", "render">>, NL,
              <<"field", "Global.Name">> >>
      [] path = "closefirst" ->
           << <<"txt", "a">>, CLOSE, NL, OPEN, <<"render", "X">>, NL,
              <<"field", "Local">> >>
      [] path = "lines" ->
           << <<"txt", "a">>, NL, OPEN, NL, <<"render", "X">>, NL, CLOSE, NL,
              <<"bad", "">> >>
      [] path = "errfirst" ->
           << <<"bad", "">>, NL, OPEN, NL, <<"render", "X">>, NL, CLOSE, NL,
              <<"txt", "a">> >>
      [] path = "errbetween" ->
           << OPEN, NL, <<"render", "X">>, NL, CLOSE, NL, <<"bad", "">>, NL,
              OPEN, NL, <<"render", "X">>, NL, CLOSE >>
      [] path = "page2" ->
           << OPEN, NL, <<"render", "X">>, NL, CLOSE, NL, <<"bad", "">> >>
      [] path = "outerlines" ->
           << OPEN, NL, <<"render", "A">>, NL, CLOSE, NL, <<"tmplcall", "plain">>, NL,
              <<"tmplcall", "lines">> >>
      [] path = "pct" ->
           << OPEN, <<"render", "%d">>, NL, <<"throw", "">>, CLOSE >>
      [] path = "outerpct" ->
           << <<"txt", "a">>, NL, <<"tmplcall", "pct">> >>
      [] path = "panics" ->
           << OPEN, <<"render", "A">>, NL, <<"unsetContext", "">>, CLOSE, NL,
              <<"txt", "b">> >>
      [] path = "callpanics" ->
           << OPEN, <<"trycall", "panics">>, NL, <<"call", "panics">>, CLOSE >>
      [] path = "spin" ->
           << OPEN, <<"render", "A">>, NL, <<"loop", "">>, CLOSE >>
      [] path = "callspin" ->
           << OPEN, <<"call", "spin">>, NL, <<"render", "B">>, CLOSE >>
      [] path = "trycallspin" ->
           << OPEN, <<"trycall", "spin">>, NL, <<"render", "B">>, CLOSE,
              <<"txt", "b">> >>
      [] path = "tmplspin" ->
           << <<"txt", "a">>, NL, <<"tmplcall", "spin">> >>
      [] path = "setup.js" ->
           << <<"function", "setup", "">>, NL, <<"setGlobal", "g1">>, NL,
              <<"callfile", "scenario", "out.txt">>, NL,
              <<"trycallfile", "fail", "out.txt">>, NL,
              <<"trycallfile", "plain", "readonly.txt">>, NL,
              <<"trycall", "plain">> >>
      [] path = "local.js" ->
           << <<"setLocal", "v1">>, NL, <<"setGlobal", "g2">> >>
      [] path = "broken.js" ->
           << <<"callfile", "recstatic", "out.txt">>, NL,
              <<"callfile", "fail", "out.txt">> >>
      [] path = "usefn" ->
           << <<"fn", "testMethod">> >>
      [] path = "regtest" ->
           << OPEN, NL, <<"register", "testMethod", "testMethod()">>, NL,
                    <<"call", "usefn">>, NL,
                    <<"tryregister", "testMethod", "newTestMethod()">>, NL,
                    <<"unregister", "testMethod", "">>, NL,
                    <<"register", "testMethod", "newTestMethod()">>, NL,
                    <<"call", "usefn">>, NL, CLOSE, NL,
              <<"fn", "testMethod">> >>
      [] path = "rereg" ->
           << OPEN, <<"tryunregister", "helper", "">>, NL,
                    <<"register", "helper", "testMethod()">>, NL,
                    <<"register", "helper", "newTestMethod()">>, CLOSE >>
      [] path = "unreg" ->
           << OPEN, <<"tryunregister", "testMethod", "">>, NL,
                    <<"render", "A">>, NL,
                    <<"unregister", "testMethod", "">>, CLOSE >>
      [] path = "override" ->
           << OPEN, <<"unregister", "templateString", "">>, NL,
                    <<"register", "templateString", "testMethod()">>, CLOSE, NL,
              <<"txt", "a">> >>
      [] path = "regbad" ->
           << OPEN, <<"tryregister", "helper", "not a function">>, NL,
                    <<"tryregister", "templateString", "testMethod()">>, NL,
                    <<"register", "helper", "not a function">>, CLOSE >>
      [] OTHER -> << >>

(***************************************************************************)
(* Text helpers (strings.Count, strings.Join, strconv).                    *)
(***************************************************************************)
\* The element of a set of one element.
Only(S) == CHOOSE x \in S : TRUE

Min(S) == CHOOSE x \in S : \A y \in S : x <= y

\* str[a:b] of Go (0-based, half-open) on a token sequence.
Slice(str, a, b) == SubSeq(str, a + 1, b)

\* strings.Count(str, "\n")
CountNL(str) == Cardinality({p \in 1..Len(str) : str[p] = NL})

RECURSIVE JoinFrom(_, _)
JoinFrom(strs, k) ==
    IF k > Len(strs) THEN << >>
    ELSE IF k = Len(strs) THEN << <<"txt", strs[k]>> >>
    ELSE << <<"txt", strs[k]>>, NL >> \o JoinFrom(strs, k + 1)

\* strings.Join(c.renderedContent, "\n")
JoinNL(strs) == JoinFrom(strs, 1)

Digits == <<"0", "1", "2", "3", "4">>

\* strconv.Itoa / strconv.Atoi on the numbers the directives use.
Itoa(n) == Digits[n + 1]
Atoi(s) == (CHOOSE k \in 1..Len(Digits) : Digits[k] = s) - 1

DecimalDigits == <<"0", "1", "2", "3", "4", "5", "6", "7", "8", "9">>

IsDigit(c) == \E k \in 1..Len(DecimalDigits) : DecimalDigits[k] = c

\* strconv.Itoa: the decimal digits of n, one character each.
RECURSIVE ItoaDigits(_)
ItoaDigits(n) ==
    IF n < 0 THEN <<"-">> \o ItoaDigits(0 - n)
    ELSE IF n < 10 THEN << DecimalDigits[n + 1] >>
    ELSE ItoaDigits(n \div 10) \o << DecimalDigits[(n % 10) + 1] >>

\* strconv.Atoi on a run of decimal digits.
RECURSIVE AtoiDigits(_)
AtoiDigits(s) ==
    IF s = << >> THEN 0
    ELSE 10 * AtoiDigits(SubSeq(s, 1, Len(s) - 1))
           + (CHOOSE k \in 1..Len(DecimalDigits) : DecimalDigits[k] = s[Len(s)]) - 1

(***************************************************************************)
(* Error text is a sequence of characters; a run of characters no pattern  *)
(* looks into is kept as one element.  Digits and the colon are single     *)
(* characters, "template: " is the run every locator starts with, and a    *)
(* template name is the sequence NameChars gives.                          *)
(***************************************************************************)
NameChars(name) ==
    CASE name = "page2" -> <<"page", "2">>
      [] OTHER -> << name >>

\* The locator text/template puts at the head of an execution or parse
\* error: template: <name>:<line>
Locator(name, line) ==
    <<"template: ">> \o NameChars(name) \o <<":">> \o ItoaDigits(line)

\* strings.Replace(s, old, new, 1)
Replace1(s, old, new) ==
    LET at == {j \in 1..(Len(s) - Len(old) + 1) : SubSeq(s, j, j + Len(old) - 1) = old}
    IN  IF at = {} THEN s
        ELSE LET j == Min(at)
             IN  SubSeq(s, 1, j - 1) \o new \o SubSeq(s, j + Len(old), Len(s))

\* lineNumRegex = `template: <name>:(\d+)`: the leftmost matches in str from
\* offset `from` on, as [v0, v1) with group 1 = [g1s, g1e).
RECURSIVE FindLocatorsFrom(_, _, _)
FindLocatorsFrom(str, name, from) ==
    LET head == <<"template: ">> \o NameChars(name) \o <<":">>
        at == {p \in (from + 1)..(Len(str) - Len(head)) :
                  /\ SubSeq(str, p, p + Len(head) - 1) = head
                  /\ IsDigit(str[p + Len(head)])}
    IN  IF at = {} THEN << >>
        ELSE LET p == Min(at)
                 d == p + Len(head)
                 e == Min({x \in d..Len(str) : x = Len(str) \/ ~IsDigit(str[x + 1])})
             IN  << [v0 |-> p - 1, v1 |-> e, g1s |-> d - 1, g1e |-> e] >>
                    \o FindLocatorsFrom(str, name, e)

\* utils.ReplaceAllStringSubmatchFunc as a function of the matches and of
\* what the callback returned for each: the spans between the matches are
\* copied, each match is replaced.
RECURSIVE ReplaceFrom(_, _, _, _, _)
ReplaceFrom(str, ms, repls, k, lastIndex) ==
    IF k > Len(ms) THEN Slice(str, lastIndex, Len(str))
    ELSE Slice(str, lastIndex, ms[k].v0) \o repls[k]
            \o ReplaceFrom(str, ms, repls, k + 1, ms[k].v1)

\* fmt.Errorf(errMsg): the message is used as the format string, so a verb
\* in it is expanded with no operand.
Errorf(errMsg) ==
    Only({[k \in DOMAIN format |->
              IF format[k] = "%d" THEN "%!d(MISSING)" ELSE format[k]] :
          format \in {errMsg}})

\* adjustLineNumber: every match of the locator pattern for `name` has the
\* first occurrence of its digits replaced by line + replacedLines, and the
\* result becomes the format string of a new error.
adjustLineNumber(name, errMsg, replacedLines) ==
    LET repl(str, m) ==
            Replace1(Slice(str, m.v0, m.v1), Slice(str, m.g1s, m.g1e),
                     ItoaDigits(AtoiDigits(Slice(str, m.g1s, m.g1e))
                                  + replacedLines))
        replaced(str) ==
            Only({ReplaceFrom(str, ms, [k \in 1..Len(ms) |-> repl(str, ms[k])], 1, 0) :
                  ms \in {FindLocatorsFrom(str, name, 0)}})
    IN  Errorf(Only({replaced(str) : str \in {errMsg}}))

(***************************************************************************)
(* sjsRegex = (?ms)(```sjs\s*\n*(.*?)sjs```) and FindAllSubmatchIndex:      *)
(* leftmost opening fence that has a closing fence after it, the greedy    *)
(* whitespace run, then the lazy group 2 up to the nearest closing fence.  *)
(* A match is [v0, v1) with group 2 = [g2s, g2e), offsets as in Go.        *)
(***************************************************************************)
RECURSIVE FindFrom(_, _)
FindFrom(str, from) ==
    LET opens == {p \in (from + 1)..Len(str) :
                     /\ str[p] = OPEN
                     /\ \E c \in (p + 1)..Len(str) : str[c] = CLOSE}
    IN  IF opens = {} THEN << >>
        ELSE LET p == Min(opens)
                 q == Min({x \in (p + 1)..Len(str) : str[x] # NL})
                 c == Min({x \in q..Len(str) : str[x] = CLOSE})
             IN  << [v0 |-> p - 1, v1 |-> c, g2s |-> q - 1, g2e |-> c - 1] >>
                    \o FindFrom(str, c)

RECURSIVE FindFromGreedyTail(_, _)
FindFromGreedyTail(str, from) ==
    LET opens == {p \in (from + 1)..Len(str) :
                     /\ str[p] = OPEN
                     /\ \E c \in (p + 1)..Len(str) : str[c] = CLOSE}
    IN  IF opens = {} THEN << >>
        ELSE LET p == Min(opens)
                 q == Min({x \in (p + 1)..Len(str) : str[x] # NL})
                 c == Min({x \in q..Len(str) : str[x] = CLOSE})
                 e == IF c < Len(str) /\ str[c + 1] = NL THEN c + 1 ELSE c
             IN  << [v0 |-> p - 1, v1 |-> e, g2s |-> q - 1, g2e |-> c - 1] >>
                    \o FindFromGreedyTail(str, e)

FindAllSwallowNewline(str) == FindFromGreedyTail(str, 0)

FindAllUnclosedToEnd(str) ==
    LET ms == FindFrom(str, 0)
        last == IF ms = << >> THEN 0 ELSE ms[Len(ms)].v1
        rest == {p \in (last + 1)..Len(str) : str[p] = OPEN}
    IN  IF rest = {} THEN ms
        ELSE LET p == Min(rest)
                 q == Min({x \in (p + 1)..(Len(str) + 1) :
                              x > Len(str) \/ str[x] # NL})
             IN  Append(ms, [v0 |-> p - 1, v1 |-> Len(str),
                             g2s |-> q - 1, g2e |-> Len(str)])

\* sjsRegex.FindAllSubmatchIndex([]byte(str), -1)
FindAllSubmatchIndex(str) == FindFrom(str, 0)

\* The text findJSBlockLineNumber puts in the place of the block.
BlockReplacement == <<"txt", "~-~BLOCK_REPLACEMENT~-~">>

\* strings.Split(content, "\n"): the lines of content, in order.
RECURSIVE SplitLines(_)
SplitLines(content) ==
    LET nls == {p \in 1..Len(content) : content[p] = NL}
    IN  IF nls = {} THEN << content >>
        ELSE << SubSeq(content, 1, Min(nls) - 1) >>
                \o SplitLines(SubSeq(content, Min(nls) + 1, Len(content)))

findJSBlockLineNumberLast(content, block) ==
    LET at == {j \in 1..(Len(content) - Len(block) + 1) :
                  SubSeq(content, j, j + Len(block) - 1) = block}
    IN  IF at = {} THEN 0
        ELSE 1 + CountNL(SubSeq(content, 1, (CHOOSE j \in at : \A x \in at : x <= j) - 1))

\* findJSBlockLineNumber: the first occurrence of the block's text is
\* replaced by a marker text, and the number of the first line that holds
\* the marker is returned.
findJSBlockLineNumber(content, block) ==
    LET holds(lines) == {i \in 1..Len(lines) :
                            \E p \in 1..Len(lines[i]) : lines[i][p] = BlockReplacement}
        replaced(c, b) == Only({Replace1(c, b, << BlockReplacement >>)})
    IN  Only({IF holds(lines) = {} THEN 0 ELSE Min(holds(lines)) :
              lines \in {SplitLines(Only({replaced(c, b) : c \in {content},
                                                            b \in {block}}))}})

\* The statements of a script source, newlines dropped.
Stmts(js) == SelectSeq(js, LAMBDA tok : tok # NL)

StatementKinds ==
    {"render", "setLocal", "setGlobal", "setRec", "call", "trycall", "throw",
     "unsetContext", "register", "tryregister", "unregister", "tryunregister",
     "callfile", "trycallfile", "function", "loop"}

\* v.compile: the source compiles iff it holds statements only.
Compiles(js) == \A k \in 1..Len(js) : js[k] = NL \/ Kind(js[k]) \in StatementKinds

(***************************************************************************)
(* Recursion directive and canary.                                         *)
(***************************************************************************)
\* lines[0] of strings.Split(input, "\n")
FirstLine(input) ==
    LET nls == {p \in 1..Len(input) : input[p] = NL}
    IN  IF nls = {} THEN input ELSE SubSeq(input, 1, Min(nls) - 1)

isRecursiveTemplateAnyLine(input) ==
    LET ps == {p \in 1..Len(input) : Kind(input[p]) = "recurse"}
    IN  IF ps = {} THEN 0 - 1 ELSE Atoi(Arg(input[Min(ps)]))

\* recurseRegex = ^{{-* *recurse (\d+) *-*}}$ applied to the first line.
isRecursiveTemplate(input) ==
    LET line == FirstLine(input)
    IN  IF Len(line) = 1 /\ Kind(line[1]) = "recurse" THEN Atoi(Arg(line[1]))
        ELSE 0 - 1

CanaryPositions(input) == {p \in 1..Len(input) : Kind(input[p]) = "canary"}

getCanaryNumFirst(input) ==
    LET ps == CanaryPositions(input)
    IN  IF ps = {} THEN [err |-> FALSE, num |-> 0 - 1]
        ELSE [err |-> FALSE, num |-> Atoi(Arg(input[Min(ps)]))]

\* getCanaryNum: [err, num]
getCanaryNum(input) ==
    LET ps == CanaryPositions(input)
    IN  IF ps = {} THEN [err |-> FALSE, num |-> 0 - 1]
        ELSE IF Cardinality(ps) > 1 THEN [err |-> TRUE, num |-> 0]
        ELSE [err |-> FALSE, num |-> Atoi(Arg(input[Min(ps)]))]

applyRecurseCanaryStopAtZero(input) ==
    LET r == getCanaryNum(input)
    IN  IF r.err THEN [input |-> << >>, cont |-> FALSE, err |-> TRUE]
        ELSE IF r.num = 0 - 1 THEN [input |-> input, cont |-> FALSE, err |-> FALSE]
        ELSE LET p == Min(CanaryPositions(input))
                 replacement == IF r.num > 0
                                    THEN << <<"canary", Itoa(r.num - 1)>> >>
                                    ELSE << >>
             IN  [input |-> SubSeq(input, 1, p - 1) \o replacement
                               \o SubSeq(input, p + 1, Len(input)),
                  cont |-> r.num > 0, err |-> FALSE]

\* applyRecurseCanary: [input, cont, err]
applyRecurseCanary(input) ==
    LET r == getCanaryNum(input)
    IN  IF r.err THEN [input |-> << >>, cont |-> FALSE, err |-> TRUE]
        ELSE IF r.num = 0 - 1 THEN [input |-> input, cont |-> FALSE, err |-> FALSE]
        ELSE LET p == Min(CanaryPositions(input))
                 replacement == IF r.num > 0
                                    THEN << <<"canary", Itoa(r.num - 1)>> >>
                                    ELSE << >>
             IN  [input |-> SubSeq(input, 1, p - 1) \o replacement
                               \o SubSeq(input, p + 1, Len(input)),
                  cont |-> TRUE, err |-> FALSE]

RecurseNoDecrement(numTimes) ==
    IF numTimes < 1 THEN [err |-> TRUE, out |-> << >>]
    ELSE [err |-> FALSE, out |-> << <<"canary", Itoa(numTimes)>> >>]

RecurseAcceptsZero(numTimes) ==
    IF numTimes < 0 THEN [err |-> TRUE, out |-> << >>]
    ELSE IF numTimes = 0 THEN [err |-> FALSE, out |-> << >>]
    ELSE [err |-> FALSE, out |-> << <<"canary", Itoa(numTimes - 1)>> >>]

\* Templator.Recurse: [err, out]
Recurse(numTimes) ==
    IF numTimes < 1 THEN [err |-> TRUE, out |-> << >>]
    ELSE [err |-> FALSE, out |-> << <<"canary", Itoa(numTimes - 1)>> >>]

(***************************************************************************)
(* State.                                                                  *)
(***************************************************************************)
VARIABLES
    vm,              \* Engine.vm: "nil" before Init, "ready" after
    contextData,     \* Templator.contextData
    globalComputed,  \* Templator.globalComputed (a store)
    vmContext,       \* the VM binding `context`
    vmRender,        \* the VM binding `render`
    stores,          \* the computed-store objects of the VM: store -> values set in it
    stack,           \* the active TemplateStringInput invocations, innermost last
    nextId,          \* next identity for a Context struct / inlineScriptContext
    calls,           \* top-level invocations made so far
    result,          \* what the last top-level call returned
    globalWrites,    \* history: the values scripts have set in context.GlobalComputed
    TmplFuncs,       \* Templator.TmplFuncs: name -> the function bound to it
    writes,          \* the calls made to Templator.WriteFunc, in order
    functions,       \* the global functions scripts have defined in the VM
    ctxDone,         \* the contexts (context.Context) whose Done channel is closed
    interrupted,     \* the interrupt flag of the goja runtime
    replace,         \* a direct call of utils.ReplaceAllStringSubmatchFunc
    runs,            \* the VM.Run / VM.RunFunction calls in progress, innermost last
    watchers         \* the goroutine of the latest call at each depth of `runs`

vars ==
    <<vm, contextData, globalComputed, vmContext, vmRender, stores, stack, nextId,
      calls, result, globalWrites, TmplFuncs, writes, functions, ctxDone,
      interrupted, replace, runs, watchers>>

\* The names templates and scripts use for template functions.  A name is
\* bound to "nil" (reserved by New), to "builtin" (set by Engine.init), to a
\* script function, or is "absent" from the table.
FuncNames ==
    {"templateFile", "templateString", "templateStringInput", "recurse",
     "testMethod", "helper"}

\* The body of a function a script defined.
FunctionBody(fnName) ==
    IF fnName = "setup"
        THEN << <<"setGlobal", "g3">>, NL, <<"callfile", "plain", "out.txt">> >>
        ELSE << >>

\* The script functions scripts pass to registerTemplateFunc.
ScriptFunctions == {"testMethod()", "newTestMethod()"}

\* The names Engine.init binds to the engine's own template functions.
Builtins == {"templateFile", "templateString", "templateStringInput", "recurse"}

Top == stack[Len(stack)]

SetTop(f) == [stack EXCEPT ![Len(stack)] = f]

\* goja Value.Export(): a plain copy of the store's content (nil for no store).
Export(store) == IF store = NoStore THEN {} ELSE stores[store]

\* vm.ToObject(vm.Get("context")).Get("LocalComputed")
getLocalComputedContext(ctx) == ctx.LocalComputed

getRecursiveComputedContext(ctx) ==
    IF ctx = Undefined THEN NoStore ELSE ctx.RecursiveComputed

ContextWithLocalAsGlobal(f) ==
    [id |-> nextId, Global |-> contextData, GlobalComputed |-> f.localComputed,
     Local |-> f.inputData, LocalComputed |-> f.localComputed,
     RecursiveComputed |-> f.localRecursiveComputed]

\* The &Context{...} a pass installs.
NewContext(f) ==
    [id |-> nextId, Global |-> contextData, GlobalComputed |-> globalComputed,
     Local |-> f.inputData, LocalComputed |-> f.localComputed,
     RecursiveComputed |-> f.localRecursiveComputed]

EmptyTmplCtx ==
    [Global |-> "", Local |-> "", GlobalComputed |-> {}, LocalComputed |-> {},
     RecursiveComputed |-> {}]

NumIterationsAtLeastTwo(numRecursions) ==
    IF numRecursions > 0 THEN numRecursions + 1 ELSE 2

\* numIterations: 1, or numRecursions + 1 under a directive.
NumIterations(numRecursions) ==
    IF numRecursions > 0 THEN numRecursions + 1 ELSE 1

\* TemplateStringInput up to the pass loop: the invocation's frame.
\* The last group of fields is history kept for the properties below.
NewInvocation(name, input, inputData) ==
    LET numRecursions == isRecursiveTemplate(input)
        lc == Len(stores) + 1
    IN  [name |-> name, input |-> input, inputData |-> inputData, pc |-> "pass",
         localComputed |-> lc,
         currentContext |-> vmContext,
         localRecursiveComputed |->
             IF numRecursions > 0 THEN lc + 1
             ELSE getRecursiveComputedContext(vmContext),
         numIterations |-> NumIterations(numRecursions),
         i |-> 0,
         context |-> Undefined,
         matches |-> << >>, mi |-> 0, result |-> << >>, lastIndex |-> 0,
         replacedLines |-> 0,
         currentRender |-> UndefinedRender, c |-> 0 - 1, renderedContent |-> << >>,
         js |-> << >>, ip |-> 0,
         evaluated |-> << >>, tmplCtx |-> EmptyTmplCtx, tp |-> 0, buf |-> << >>,
         out |-> << >>, err |-> "", errMsg |-> << >>, errIs |-> {},
         rawErr |-> << >>, thrown |-> "", kind |-> "template", outFile |-> "",
         ctx |-> IF stack = << >> THEN "call" ELSE "init",
         startingLineNumber |-> 0,
         ownLocalComputed |-> lc, passes |-> 0, order |-> << >>, subs |-> << >>,
         calledRender |-> << >>, written |-> {}, executed |-> FALSE,
         globalWritesAtExport |-> {},
         ownRecursiveComputed |-> IF numRecursions > 0 THEN lc + 1 ELSE NoStore,
         callerRecursiveComputed |-> getRecursiveComputedContext(vmContext),
         writtenBefore |-> {}, recWritten |-> {}, recWrittenBefore |-> {},
         executions |-> 0, panicked |-> FALSE]

\* createComputedContextObject() for LocalComputed and, under a directive,
\* for RecursiveComputed.
StoresWithInvocation(input) ==
    IF isRecursiveTemplate(input) > 0 THEN stores \o << {}, {} >>
    ELSE Append(stores, {})

\* VM.Run / VM.RunFunction at the top level: the frame of a script that is
\* not a block of a template.
NewScript(name, js) ==
    [NewInvocation(name, << >>, "") EXCEPT
        !.kind = "script", !.pc = "script", !.js = js, !.ip = 1,
        !.localComputed = NoStore, !.ownLocalComputed = NoStore]

\* Templator.TemplateFile: TemplateString, then the write of the output.
TemplateFile(base, templateFile, outFile, inputData) ==
    /\ stack' = Append(base, [NewInvocation(templateFile, ReadFunc(templateFile),
                                            inputData) EXCEPT !.outFile = outFile])
    /\ stores' = StoresWithInvocation(ReadFunc(templateFile))

\* What t.WriteFunc is called with.
WriteRecord(f) == [file |-> f.outFile, content |-> f.out, inv |-> f.ownLocalComputed]

WroteOnAnyReturn(f) ==
    IF f.outFile # "" THEN Append(writes, WriteRecord(f)) ELSE writes

\* Templator.TemplateFile after TemplateString returned: an error is
\* returned as it is, an output is handed to the write function.
Wrote(f) ==
    IF f.pc = "done" /\ f.outFile # "" THEN Append(writes, WriteRecord(f)) ELSE writes

\* Whether the invocation returns an error to its caller: it failed, or the
\* write function refused the file.
ReturnedError(f) == f.pc = "fail" \/ f.outFile \in BadFiles

ErrorText(f) ==
    IF f.pc = "fail" THEN f.errMsg ELSE <<"failed to write file ", f.outFile>>

ErrorIs(f) == IF f.pc = "fail" THEN f.errIs ELSE {}

\* Templator.TemplateString: read the file, enter TemplateStringInput.
TemplateString(base, templatePath, inputData) ==
    /\ stack' = Append(base, NewInvocation(templatePath, ReadFunc(templatePath), inputData))
    /\ stores' = StoresWithInvocation(ReadFunc(templatePath))

FailedWithPartialOutput(f, why) ==
    [f EXCEPT !.pc = "fail", !.out = f.result \o JoinNL(f.renderedContent), !.err = why]

\* An error return of TemplateStringInput: return "", err.
Failed(f, why) == [f EXCEPT !.pc = "fail", !.out = << >>, !.err = why]

\* The error return with the error's text and the sentinel errors it wraps.
FailedWith(f, why, msg, is) == [Failed(f, why) EXCEPT !.errMsg = msg, !.errIs = is]

\* The characters of a script source, as the error text quotes them.
JsText(js) == [k \in DOMAIN js |-> Arg(js[k])]

\* VM.Run's error for a script that threw: the exception's text, wrapping
\* ErrRuntime.
RunError(exception) ==
    <<"failed to run script ">> \o exception \o <<": script runtime failure">>

\* execSJSBlock's error: the template path, the script source, the cause.
\* A script run at the top level returns the cause itself.
InlineScriptError(f, cause) ==
    IF f.kind = "script" THEN cause
    ELSE <<"failed to run inline script in ", f.name, ": ">> \o JsText(f.js)
            \o <<" ">> \o cause

\* The line of the spliced body the template executor is at.
LineOf(f) == 1 + CountNL(SubSeq(f.evaluated, 1, f.tp - 1))

\* The error of tmp.Execute: the locator of the failing action, then the
\* cause.
ExecutorError(f, cause) ==
    Locator(f.name, LineOf(f)) \o <<": executing: ">> \o cause

\* execTemplate's error when tmp.Execute fails: the executor's error with its
\* line adjusted.
ExecuteError(f, cause) ==
    <<"failed to execute template: ">>
        \o adjustLineNumber(f.name, ExecutorError(f, cause), f.replacedLines)

\* execTemplate returns that error; rawErr keeps the executor's own error.
FailedExecute(f, cause) ==
    [FailedWith(f, "exec", ExecuteError(f, cause), {}) EXCEPT
        !.rawErr = ExecutorError(f, cause)]

Unrecovered(f, e) == [f EXCEPT !.pc = "panic", !.panicked = TRUE]

\* The deferred recover of TemplateStringInput: the panic value becomes the
\* error, the named result `out` keeps the value it had.
Recovered(f, e) ==
    [f EXCEPT !.pc = "fail", !.err = "panic", !.panicked = TRUE,
              !.errMsg = <<"failed to render template: ", e>>, !.errIs = {}]

\* execTemplate's error when Parse fails: the parser's error, not adjusted.
ParseError(f, body) ==
    LET p == Min({k \in 1..Len(body) :
                     Kind(body[k]) \in {"parseerr", "fn", "tmplcall", "recurse"}})
    IN  <<"failed to parse template: ">>
            \o Locator(f.name, 1 + CountNL(SubSeq(body, 1, p - 1)))
            \o <<": unexpected">>

(***************************************************************************)
(* Engine.                                                                 *)
(***************************************************************************)
\* What an entry point of the engine returned: the entry point, the outcome,
\* the file it was given, the output, the error's text and the sentinel
\* errors it wraps.
Result(op, status, path, out, errMsg, errIs) ==
    [op |-> op, status |-> status, path |-> path, out |-> out, errMsg |-> errMsg,
     errIs |-> errIs]

\* `if e.vm == nil { return ErrNotInitialized }`
NotInitialized(op, path) ==
    Result(op, "ErrNotInitialized", path, << >>,
           <<"engine has not been initialized">>, {"ErrNotInitialized"})

(***************************************************************************)
(* utils.ReplaceAllStringSubmatchFunc called on its own, with sjsRegex as   *)
(* the pattern.  The inputs are every concatenation of three pieces; the    *)
(* callbacks return the whole match, the second group, a constant, or an    *)
(* error at their first or second call.                                     *)
(***************************************************************************)
ReplacePieces ==
    { << >>,
      << <<"txt", "a">> >>,
      << NL >>,
      << OPEN, <<"txt", "x">>, CLOSE >>,
      << OPEN, NL, <<"txt", "y">>, NL, CLOSE >>,
      << OPEN >> }

ReplaceInputs == {p \o q \o r : p \in ReplacePieces, q \in ReplacePieces, r \in ReplacePieces}

ReplFuncs == {"match", "inner", "test", "failfirst", "failsecond"}

\* repl(groups): what the callback returns at its n-th call.
Repl(name, groups, n) ==
    CASE name = "match" -> [str |-> groups[1], err |-> FALSE]
      [] name = "inner" -> [str |-> groups[3], err |-> FALSE]
      [] name = "test" -> [str |-> << <<"txt", "test">> >>, err |-> FALSE]
      [] name = "failfirst" ->
           IF n = 1 THEN [str |-> << >>, err |-> TRUE]
           ELSE [str |-> << <<"txt", "test">> >>, err |-> FALSE]
      [] name = "failsecond" ->
           IF n = 2 THEN [str |-> << >>, err |-> TRUE]
           ELSE [str |-> << <<"txt", "test">> >>, err |-> FALSE]

\* The locals and the return values of one call of the function.
ReplaceState(pc, str, repl, ms, mi, lastIndex, res, called, out, err) ==
    [pc |-> pc, input |-> str, repl |-> repl, matches |-> ms, mi |-> mi,
     lastIndex |-> lastIndex, result |-> res, called |-> called,
     out |-> out, err |-> err]

NoReplace == ReplaceState("idle", << >>, "match", << >>, 1, 0, << >>, << >>, << >>, FALSE)

Init ==
    /\ vm = "nil"
    /\ contextData = ""
    /\ globalComputed = NoStore
    /\ vmContext = Undefined
    /\ vmRender = UndefinedRender
    /\ stores = << >>
    /\ stack = << >>
    /\ nextId = 1
    /\ calls = 0
    /\ result = Result("", "none", "", << >>, << >>, {})
    /\ globalWrites = {}
    /\ TmplFuncs = [n \in FuncNames |->
                       IF n \in {"templateFile", "templateString", "templateStringInput"}
                           THEN "nil" ELSE "absent"]
    /\ writes = << >>
    /\ functions = {}
    /\ ctxDone = {}
    /\ interrupted = FALSE
    /\ replace = NoReplace
    /\ runs = << >>
    /\ watchers = << >>

InitializedNever == FALSE

\* e.vm != nil
Initialized == vm # "nil"

\* What can happen to an Init call on a fresh engine: it succeeds, a file of
\* WithJSFiles fails to run, or the debugger of WithDebugger fails to start.
InitOutcomes == {"ok", "jsFileFails", "debuggerFails"}

\* The functions a host passes to WithTemplateFuncs.
OptionFunctions == {"hostFunc"}

\* New(WithTemplateFuncs(funcs)), one key of the map per step: the option
\* runs inside New, after the three names were reserved and before anything
\* else is called on the engine.  A key that is in the table panics with
\* ErrReserved and New returns no engine, so only the other keys go on.
WithTemplateFuncs(k, v) ==
    /\ ~Initialized
    /\ stack = << >>
    /\ calls = 0
    /\ result.op = ""
    /\ TmplFuncs[k] = "absent"
    /\ TmplFuncs' = [TmplFuncs EXCEPT ![k] = v]
    /\ UNCHANGED <<vm, contextData, globalComputed, vmContext, vmRender, stores,
                   stack, nextId, calls, result, globalWrites>>
    /\ UNCHANGED <<writes, functions, ctxDone, interrupted, replace, runs, watchers>>

\* Engine.Init / Engine.init
EngineInit(data, outcome) ==
    /\ stack = << >>
    /\ IF Initialized
          THEN /\ result' = Result("Init", "ErrAlreadyInitialized", "", << >>,
                                    <<"engine has already been initialized">>,
                                    {"ErrAlreadyInitialized"})
               /\ UNCHANGED <<vm, contextData, globalComputed, vmContext, vmRender,
                              stores, stack, nextId, calls, globalWrites, TmplFuncs>>
          ELSE IF outcome = "jsFileFails"
          THEN /\ result' = Result("Init", "error", "", << >>,
                                    <<"failed to init a script file">>, {})
               /\ UNCHANGED <<vm, contextData, globalComputed, vmContext, vmRender,
                              stores, stack, nextId, calls, globalWrites, TmplFuncs>>
          ELSE /\ vm' = "ready"
               /\ stores' = << {} >>
               /\ globalComputed' = 1
               /\ contextData' = data
               /\ vmContext' = [id |-> nextId, Global |-> data, GlobalComputed |-> 1,
                                Local |-> data, LocalComputed |-> 1,
                                RecursiveComputed |-> NoStore]
               /\ nextId' = nextId + 1
               /\ TmplFuncs' = [n \in FuncNames |->
                                   IF n \in Builtins THEN "builtin" ELSE TmplFuncs[n]]
               /\ result' = IF outcome = "debuggerFails"
                                THEN Result("Init", "error", "", << >>,
                                            <<"failed to start debugger">>, {})
                                ELSE Result("Init", "ok", "", << >>, << >>, {})
               /\ UNCHANGED <<vmRender, stack, calls, globalWrites>>
    /\ UNCHANGED <<writes, functions, ctxDone, interrupted, replace, runs, watchers>>

\* Engine.TemplateString
EngineTemplateString(templateFilePath, data) ==
    /\ stack = << >>
    /\ calls < MaxCalls
    /\ calls' = calls + 1
    /\ IF ~Initialized
          THEN /\ result' = NotInitialized("TemplateString", templateFilePath)
               /\ UNCHANGED <<stack, stores>>
          ELSE /\ TemplateString(stack, templateFilePath, data)
               /\ result' = Result("TemplateString", "running", templateFilePath,
                                    << >>, << >>, {})
    /\ UNCHANGED <<vm, contextData, globalComputed, vmContext, vmRender, nextId,
                   globalWrites>>
    /\ ctxDone' = ctxDone \ {"call"}
    /\ UNCHANGED <<TmplFuncs, writes, functions, interrupted, replace, runs, watchers>>

\* Engine.TemplateFile
EngineTemplateFile(templateFile, outFile, data) ==
    /\ stack = << >>
    /\ calls < MaxCalls
    /\ calls' = calls + 1
    /\ IF ~Initialized
          THEN /\ result' = NotInitialized("TemplateFile", templateFile)
               /\ UNCHANGED <<stack, stores>>
          ELSE /\ TemplateFile(stack, templateFile, outFile, data)
               /\ result' = Result("TemplateFile", "running", templateFile,
                                    << >>, << >>, {})
    /\ UNCHANGED <<vm, contextData, globalComputed, vmContext, vmRender, nextId,
                   globalWrites>>
    /\ ctxDone' = ctxDone \ {"call"}
    /\ UNCHANGED <<TmplFuncs, writes, functions, interrupted, replace, runs, watchers>>

\* Engine.TemplateStringInput: the template text is given, not read.
EngineTemplateStringInput(name, template, data) ==
    /\ stack = << >>
    /\ calls < MaxCalls
    /\ calls' = calls + 1
    /\ IF ~Initialized
          THEN /\ result' = NotInitialized("TemplateStringInput", name)
               /\ UNCHANGED <<stack, stores>>
          ELSE /\ stack' = Append(stack, NewInvocation(name, template, data))
               /\ stores' = StoresWithInvocation(template)
               /\ result' = Result("TemplateStringInput", "running", name,
                                    << >>, << >>, {})
    /\ UNCHANGED <<vm, contextData, globalComputed, vmContext, vmRender, nextId,
                   globalWrites>>
    /\ ctxDone' = ctxDone \ {"call"}
    /\ UNCHANGED <<TmplFuncs, writes, functions, interrupted, replace, runs, watchers>>

\* Engine.RunScript: read the script file and run it in the VM.
EngineRunScript(scriptFile) ==
    /\ stack = << >>
    /\ calls < MaxCalls
    /\ calls' = calls + 1
    /\ IF ~Initialized
          THEN /\ result' = NotInitialized("RunScript", scriptFile)
               /\ UNCHANGED stack
          ELSE IF scriptFile \in MissingFiles
          THEN /\ result' = Result("RunScript", "error", scriptFile, << >>,
                                    <<"failed to read script file">>, {})
               /\ UNCHANGED stack
          ELSE /\ stack' = << NewScript(scriptFile, ReadFunc(scriptFile)) >>
               /\ result' = Result("RunScript", "running", scriptFile, << >>, << >>, {})
    /\ UNCHANGED <<vm, contextData, globalComputed, vmContext, vmRender, stores,
                   nextId, globalWrites>>
    /\ ctxDone' = ctxDone \ {"call"}
    /\ UNCHANGED <<TmplFuncs, writes, functions, interrupted, replace, runs, watchers>>

\* Engine.RunFunction / VM.RunFunction: call a function a script defined.
EngineRunFunction(fnName) ==
    /\ stack = << >>
    /\ calls < MaxCalls
    /\ calls' = calls + 1
    /\ IF ~Initialized
          THEN /\ result' = NotInitialized("RunFunction", fnName)
               /\ UNCHANGED stack
          ELSE IF fnName \notin functions
          THEN /\ result' = Result("RunFunction", "error", fnName, << >>,
                                    <<"failed to find function">>,
                                    {"ErrFunctionNotFound"})
               /\ UNCHANGED stack
          ELSE /\ stack' = << NewScript(fnName, FunctionBody(fnName)) >>
               /\ result' = Result("RunFunction", "running", fnName, << >>, << >>, {})
    /\ UNCHANGED <<vm, contextData, globalComputed, vmContext, vmRender, stores,
                   nextId, globalWrites>>
    /\ ctxDone' = ctxDone \ {"call"}
    /\ UNCHANGED <<TmplFuncs, writes, functions, interrupted, replace, runs, watchers>>

(***************************************************************************)
(* Templator.TemplateStringInput: one pass.                                *)
(***************************************************************************)
\* Loop head: install the pass's context, then evaluateInlineScripts finds
\* the script blocks of the body.
BeginPass ==
    /\ stack # << >>
    /\ Top.pc = "pass"
    /\ LET f == Top
           context == NewContext(f)
       IN  /\ vmContext' = context
           /\ nextId' = nextId + 1
           /\ stack' = SetTop([f EXCEPT !.pc = "blocks",
                                        !.context = context,
                                        !.matches = FindAllSubmatchIndex(f.input),
                                        !.mi = 1,
                                        !.result = << >>,
                                        !.lastIndex = 0,
                                        !.replacedLines = 0,
                                        !.passes = @ + 1,
                                        !.order = << >>,
                                        !.subs = << >>,
                                        !.written = {},
                                        !.executed = FALSE,
                                        !.writtenBefore = @ \cup f.written,
                                        !.recWritten = {},
                                        !.recWrittenBefore = @ \cup f.recWritten])
    /\ UNCHANGED <<vm, contextData, globalComputed, vmRender, stores, calls, result,
                   globalWrites>>
    /\ UNCHANGED <<TmplFuncs, writes, functions, ctxDone, interrupted, replace, runs, watchers>>

\* execSJSBlock up to v.Run: save the `render` binding, install this block's
\* render function, compile the source.
BlockStart ==
    /\ stack # << >>
    /\ Top.pc = "blocks"
    /\ Top.mi <= Len(Top.matches)
    /\ LET f == Top
           m == f.matches[f.mi]
           js == Slice(f.input, m.g2s, m.g2e)
           g == [f EXCEPT !.currentRender = vmRender,
                          !.c = nextId,
                          !.renderedContent = << >>,
                          !.js = js,
                          !.startingLineNumber = findJSBlockLineNumber(f.input, js),
                          !.ip = 1,
                          !.order = Append(@, m.v0),
                          !.calledRender = << >>]
       IN  /\ vmRender' = [c |-> nextId]
           /\ nextId' = nextId + 1
           /\ stack' = SetTop(IF Compiles(js) THEN [g EXCEPT !.pc = "script"]
                              ELSE FailedWith(g, "compile",
                                       InlineScriptError(g, <<"script compilation failed">>),
                                       {"ErrCompilation"}))
    /\ UNCHANGED <<vm, contextData, globalComputed, vmContext, stores, calls, result,
                   globalWrites>>
    /\ UNCHANGED <<TmplFuncs, writes, functions, ctxDone, interrupted, replace, runs, watchers>>

\* The statement the running script is at.
Stmt == Stmts(Top.js)[Top.ip]

\* The program has a next instruction to execute.
Executing ==
    /\ stack # << >>
    /\ Top.pc = "script"
    /\ Top.ip <= Len(Stmts(Top.js))

\* The runtime executes the next instruction unless it has been interrupted.
InScript == Executing /\ ~interrupted

\* inlineScriptContext.render, reached through the VM binding `render`:
\* the string is appended to the content of the context the binding belongs to.
RenderInto(frames, s) ==
    [k \in DOMAIN frames |->
        IF frames[k].c = vmRender.c
            THEN [frames[k] EXCEPT !.renderedContent = Append(@, s)]
            ELSE frames[k]]

\* render(s); a TypeError when no block has bound `render`.
ScriptRender ==
    /\ InScript
    /\ Kind(Stmt) = "render"
    /\ stack' = IF vmRender = UndefinedRender
                    THEN SetTop(FailedWith(Top, "script",
                                    InlineScriptError(Top, RunError(<<"TypeError">>)),
                                    {"ErrRuntime"}))
                    ELSE RenderInto(SetTop([Top EXCEPT
                                        !.ip = @ + 1,
                                        !.calledRender = Append(@, Arg(Stmt))]),
                                    Arg(Stmt))
    /\ UNCHANGED <<vm, contextData, globalComputed, vmContext, vmRender, stores,
                   nextId, calls, result, globalWrites>>
    /\ UNCHANGED <<TmplFuncs, writes, functions, ctxDone, interrupted, replace, runs, watchers>>

\* context.LocalComputed.v = true
ScriptSetLocal ==
    /\ InScript
    /\ Kind(Stmt) = "setLocal"
    /\ stores' = [stores EXCEPT ![vmContext.LocalComputed] = @ \cup {Arg(Stmt)}]
    /\ stack' = SetTop([Top EXCEPT !.ip = @ + 1, !.written = @ \cup {Arg(Stmt)}])
    /\ UNCHANGED <<vm, contextData, globalComputed, vmContext, vmRender, nextId,
                   calls, result, globalWrites>>
    /\ UNCHANGED <<TmplFuncs, writes, functions, ctxDone, interrupted, replace, runs, watchers>>

\* context.GlobalComputed.v = true
ScriptSetGlobal ==
    /\ InScript
    /\ Kind(Stmt) = "setGlobal"
    /\ stores' = [stores EXCEPT ![vmContext.GlobalComputed] = @ \cup {Arg(Stmt)}]
    /\ stack' = SetTop([Top EXCEPT !.ip = @ + 1])
    /\ globalWrites' = globalWrites \cup {Arg(Stmt)}
    /\ UNCHANGED <<vm, contextData, globalComputed, vmContext, vmRender, nextId,
                   calls, result>>
    /\ UNCHANGED <<TmplFuncs, writes, functions, ctxDone, interrupted, replace, runs, watchers>>

\* context.RecursiveComputed.v = true; a TypeError when the context has no
\* RecursiveComputed store.
ScriptSetRecursive ==
    /\ InScript
    /\ Kind(Stmt) = "setRec"
    /\ IF vmContext.RecursiveComputed = NoStore
          THEN /\ stack' = SetTop(FailedWith(Top, "script",
                                     InlineScriptError(Top, RunError(<<"TypeError">>)),
                                     {"ErrRuntime"}))
               /\ UNCHANGED stores
          ELSE /\ stores' = [stores EXCEPT
                                ![vmContext.RecursiveComputed] = @ \cup {Arg(Stmt)}]
               /\ stack' = SetTop([Top EXCEPT !.ip = @ + 1,
                                              !.recWritten = @ \cup {Arg(Stmt)}])
    /\ UNCHANGED <<vm, contextData, globalComputed, vmContext, vmRender, nextId,
                   calls, result, globalWrites>>
    /\ UNCHANGED <<TmplFuncs, writes, functions, ctxDone, interrupted, replace, runs, watchers>>

\* function name() { ... } at the top level of a script
ScriptDefine ==
    /\ InScript
    /\ Kind(Stmt) = "function"
    /\ functions' = functions \cup {Stmt[2]}
    /\ stack' = SetTop([Top EXCEPT !.ip = @ + 1])
    /\ UNCHANGED <<vm, contextData, globalComputed, vmContext, vmRender, stores,
                   nextId, calls, result, globalWrites>>
    /\ UNCHANGED <<TmplFuncs, writes, ctxDone, interrupted, replace, runs, watchers>>

\* templateString(name, context.Local) or templateFile(name, outFile,
\* context.Local) called from the script.
ScriptCall ==
    /\ InScript
    /\ Kind(Stmt) \in {"call", "trycall", "callfile", "trycallfile"}
    /\ IF Kind(Stmt) \in {"call", "trycall"}
          THEN TemplateString(stack, Arg(Stmt), vmContext.Local)
          ELSE TemplateFile(stack, Stmt[2], Stmt[3], vmContext.Local)
    /\ UNCHANGED <<vm, contextData, globalComputed, vmContext, vmRender, nextId,
                   calls, result, globalWrites>>
    /\ UNCHANGED <<TmplFuncs, writes, functions, ctxDone, interrupted, replace, runs, watchers>>

registerTemplateFuncOverwrite(name, fn) ==
    IF fn \notin ScriptFunctions
        THEN [err |-> "ErrInvalidArg", funcs |-> TmplFuncs]
        ELSE [err |-> "", funcs |-> [TmplFuncs EXCEPT ![name] = fn]]

\* Engine.registerTemplateFunc: the error it panics with ("" for none) and
\* the table it leaves.
registerTemplateFunc(name, fn) ==
    IF fn \notin ScriptFunctions
        THEN [err |-> "ErrInvalidArg", funcs |-> TmplFuncs]
    ELSE IF TmplFuncs[name] # "absent"
        THEN [err |-> "ErrReserved", funcs |-> TmplFuncs]
    ELSE [err |-> "", funcs |-> [TmplFuncs EXCEPT ![name] = fn]]

unregisterTemplateFuncSilent(name) ==
    [err |-> "", funcs |-> [TmplFuncs EXCEPT ![name] = "absent"]]

\* Engine.unregisterTemplateFunc
unregisterTemplateFunc(name) ==
    IF TmplFuncs[name] = "absent"
        THEN [err |-> "ErrReserved", funcs |-> TmplFuncs]
        ELSE [err |-> "", funcs |-> [TmplFuncs EXCEPT ![name] = "absent"]]

\* A call of a function of the engine returned r into the script: a panic
\* with a Go error is a script exception, which the `try` forms catch.
AfterEngineCall(f, r, caught) ==
    IF r.err = "" \/ caught
        THEN [f EXCEPT !.ip = @ + 1, !.thrown = r.err]
        ELSE [FailedWith(f, "script",
                         InlineScriptError(f, RunError(<<"GoError: ", r.err>>)),
                         {"ErrRuntime"}) EXCEPT !.thrown = r.err]

\* registerTemplateFunc(name, fn)
ScriptRegister ==
    /\ InScript
    /\ Kind(Stmt) \in {"register", "tryregister"}
    /\ LET r == registerTemplateFunc(Stmt[2], Stmt[3])
       IN  /\ TmplFuncs' = r.funcs
           /\ stack' = SetTop(AfterEngineCall(Top, r, Kind(Stmt) = "tryregister"))
    /\ UNCHANGED <<vm, contextData, globalComputed, vmContext, vmRender, stores,
                   nextId, calls, result, globalWrites>>
    /\ UNCHANGED <<writes, functions, ctxDone, interrupted, replace, runs, watchers>>

\* unregisterTemplateFunc(name)
ScriptUnregister ==
    /\ InScript
    /\ Kind(Stmt) \in {"unregister", "tryunregister"}
    /\ LET r == unregisterTemplateFunc(Stmt[2])
       IN  /\ TmplFuncs' = r.funcs
           /\ stack' = SetTop(AfterEngineCall(Top, r, Kind(Stmt) = "tryunregister"))
    /\ UNCHANGED <<vm, contextData, globalComputed, vmContext, vmRender, stores,
                   nextId, calls, result, globalWrites>>
    /\ UNCHANGED <<writes, functions, ctxDone, interrupted, replace, runs, watchers>>

\* context = undefined
ScriptUnsetContext ==
    /\ InScript
    /\ Kind(Stmt) = "unsetContext"
    /\ vmContext' = Undefined
    /\ stack' = SetTop([Top EXCEPT !.ip = @ + 1])
    /\ UNCHANGED <<vm, contextData, globalComputed, vmRender, stores, nextId, calls,
                   result, globalWrites>>
    /\ UNCHANGED <<TmplFuncs, writes, functions, ctxDone, interrupted, replace, runs, watchers>>

\* The contexts whose cancellation a Run can watch: the one given to Init,
\* which the script functions and template functions hand to the invocations
\* they start, and the one given to the running call of an entry point.
Contexts == {"init", "call"}

\* The user of the engine cancels a context.
Cancel(c) ==
    /\ c \notin ctxDone
    /\ c = "call" => stack # << >>
    /\ ctxDone' = ctxDone \cup {c}
    /\ UNCHANGED <<vm, contextData, globalComputed, vmContext, vmRender, stores,
                   stack, nextId, calls, result, globalWrites>>
    /\ UNCHANGED <<TmplFuncs, writes, functions, interrupted, replace, runs, watchers>>

\* The goroutine of a Run whose program has not returned finds its context
\* done and calls Runtime.Interrupt("halt"); the runtime is the one all the
\* running programs share.
WatcherInterrupt ==
    /\ ~interrupted
    /\ \E k \in DOMAIN stack : stack[k].pc = "script" /\ stack[k].ctx \in ctxDone
    /\ interrupted' = TRUE
    /\ UNCHANGED <<vm, contextData, globalComputed, vmContext, vmRender, stores,
                   stack, nextId, calls, result, globalWrites>>
    /\ UNCHANGED <<TmplFuncs, writes, functions, ctxDone, replace, runs, watchers>>

\* VM.Run's error for a program the runtime interrupted: RunProgram returns
\* an *InterruptedError, which is not a script exception and is wrapped as
\* it is.
Interrupted(f) ==
    FailedWith(f, "interrupted",
               InlineScriptError(f, <<"failed to run script: ", "halt">>),
               {"InterruptedError"})

\* The runtime finds the interrupt flag set before the next instruction of
\* the running program: the flag is cleared and RunProgram returns.
ScriptInterrupted ==
    /\ Executing
    /\ interrupted
    /\ interrupted' = FALSE
    /\ stack' = SetTop(Interrupted(Top))
    /\ UNCHANGED <<vm, contextData, globalComputed, vmContext, vmRender, stores,
                   nextId, calls, result, globalWrites>>
    /\ UNCHANGED <<TmplFuncs, writes, functions, ctxDone, replace, runs, watchers>>

\* The script throws: v.Run returns an error and execSJSBlock returns it.
ScriptThrow ==
    /\ InScript
    /\ Kind(Stmt) = "throw"
    /\ stack' = SetTop(FailedWith(Top, "script",
                          InlineScriptError(Top, RunError(<<"Error">>)),
                          {"ErrRuntime"}))
    /\ UNCHANGED <<vm, contextData, globalComputed, vmContext, vmRender, stores,
                   nextId, calls, result, globalWrites>>
    /\ UNCHANGED <<TmplFuncs, writes, functions, ctxDone, interrupted, replace, runs, watchers>>

\* What execSJSBlock returns when the script has run.
BlockOutput(f) == JoinNL(f.renderedContent)

SpliceSubstitutionFirst(f, output) ==
    output \o Slice(f.input, f.lastIndex, f.matches[f.mi].v0)

\* ReplaceAllStringSubmatchFunc: str[lastIndex:v[0]] + replStr
Splice(f, output) ==
    Slice(f.input, f.lastIndex, f.matches[f.mi].v0) \o output

\* The script ran to its end: execSJSBlock restores `render` and returns the
\* joined output; the replace loop splices it and moves to the next match.
BlockEnd ==
    /\ stack # << >>
    /\ Top.kind = "template"
    /\ Top.pc = "script"
    /\ Top.ip > Len(Stmts(Top.js))
    /\ LET f == Top
           m == f.matches[f.mi]
           output == BlockOutput(f)
       IN  /\ vmRender' = f.currentRender
           /\ stack' = SetTop([f EXCEPT
                  !.pc = "blocks",
                  !.replacedLines = @ + CountNL(Slice(f.input, m.v0, m.v1))
                                      - CountNL(output),
                  !.result = @ \o Splice(f, output),
                  !.lastIndex = m.v1,
                  !.mi = @ + 1,
                  !.subs = Append(@, output)])
    /\ UNCHANGED <<vm, contextData, globalComputed, vmContext, stores, nextId,
                   calls, result, globalWrites>>
    /\ UNCHANGED <<TmplFuncs, writes, functions, ctxDone, interrupted, replace, runs, watchers>>

\* A script run at the top level ran to its end: VM.Run returns.
RunEnd ==
    /\ stack # << >>
    /\ Top.kind = "script"
    /\ Top.pc = "script"
    /\ Top.ip > Len(Stmts(Top.js))
    /\ stack' = SetTop([Top EXCEPT !.pc = "done"])
    /\ UNCHANGED <<vm, contextData, globalComputed, vmContext, vmRender, stores,
                   nextId, calls, result, globalWrites>>
    /\ UNCHANGED <<TmplFuncs, writes, functions, ctxDone, interrupted, replace, runs, watchers>>

\* template.New(name).Funcs(t.TmplFuncs).Parse: fails on text the parser
\* rejects and on a call of a function that is not in the table.
Parses(body) ==
    \A k \in 1..Len(body) :
        /\ Kind(body[k]) # "parseerr"
        /\ Kind(body[k]) = "fn" => TmplFuncs[Arg(body[k])] # "absent"
        /\ Kind(body[k]) = "tmplcall" => TmplFuncs["templateString"] # "absent"
        /\ Kind(body[k]) = "recurse" => TmplFuncs["recurse"] # "absent"

TmplCtxSwapped(f, localComputed) ==
    [Global |-> f.context.Local,
     Local |-> f.context.Global,
     GlobalComputed |-> Export(f.context.GlobalComputed),
     LocalComputed |-> Export(localComputed),
     RecursiveComputed |-> Export(f.localRecursiveComputed)]

\* The tmplContext handed to the template executor: exported copies.
NewTmplCtx(f, localComputed) ==
    [Global |-> f.context.Global,
     Local |-> f.context.Local,
     GlobalComputed |-> Export(f.context.GlobalComputed),
     LocalComputed |-> Export(localComputed),
     RecursiveComputed |-> Export(f.localRecursiveComputed)]

\* All matches replaced: evaluateInlineScripts returns result + str[lastIndex:];
\* the pass reads LocalComputed back from the VM (vm.ToObject panics when
\* `context` is undefined), builds the template data and execTemplate parses
\* the spliced body.
EvalDone ==
    /\ stack # << >>
    /\ Top.pc = "blocks"
    /\ Top.mi > Len(Top.matches)
    /\ LET f == Top
           evaluated == f.result \o Slice(f.input, f.lastIndex, Len(f.input))
           localComputed == getLocalComputedContext(vmContext)
           g == [f EXCEPT !.evaluated = evaluated,
                          !.localComputed = localComputed,
                          !.tmplCtx = NewTmplCtx(f, localComputed),
                          !.tp = 1,
                          !.buf = << >>,
                          !.executed = TRUE,
                          !.executions = @ + 1,
                          !.globalWritesAtExport = globalWrites]
       IN  stack' = SetTop(
               IF vmContext = Undefined
                   THEN Recovered(f, "TypeError: Cannot convert undefined or null to object")
               ELSE IF Parses(evaluated) THEN [g EXCEPT !.pc = "tmpl"]
               ELSE FailedWith(g, "parse", ParseError(g, evaluated), {}))
    /\ UNCHANGED <<vm, contextData, globalComputed, vmContext, vmRender, stores,
                   nextId, calls, result, globalWrites>>
    /\ UNCHANGED <<TmplFuncs, writes, functions, ctxDone, interrupted, replace, runs, watchers>>

InTemplate ==
    /\ stack # << >>
    /\ Top.pc = "tmpl"
    /\ Top.tp <= Len(Top.evaluated)

\* The token the template executor is at.
Tok == Top.evaluated[Top.tp]

\* What a token without side effects writes to the output buffer.
Emit(f, tok) ==
    CASE Kind(tok) = "field" ->
           << <<"txt", IF Arg(tok) = "Local" THEN f.tmplCtx.Local ELSE f.tmplCtx.Global>> >>
      [] Kind(tok) = "lcref" ->
           << <<"txt", IF Arg(tok) \in f.tmplCtx.LocalComputed
                          THEN Arg(tok) ELSE "<no value>">> >>
      [] Kind(tok) = "gcref" ->
           << <<"txt", IF Arg(tok) \in f.tmplCtx.GlobalComputed
                          THEN Arg(tok) ELSE "<no value>">> >>
      [] Kind(tok) = "rcref" ->
           << <<"txt", IF Arg(tok) \in f.tmplCtx.RecursiveComputed
                          THEN Arg(tok) ELSE "<no value>">> >>
      [] Kind(tok) = "later-lcref" -> << <<"lcref", Arg(tok)>> >>
      [] Kind(tok) = "later-rcref" -> << <<"rcref", Arg(tok)>> >>
      [] Kind(tok) = "later-recurse" -> << <<"recurse", Arg(tok)>> >>
      [] Kind(tok) = "recurse" -> Recurse(Atoi(Arg(tok))).out
      [] Kind(tok) = "fn" -> << <<"txt", TmplFuncs[Arg(tok)]>> >>
      [] OTHER -> << tok >>

\* Whether executing the token fails.
ExecFails(tok) ==
    \/ Kind(tok) = "bad"
    \/ Kind(tok) = "recurse" /\ Recurse(Atoi(Arg(tok))).err

\* tmp.Execute: literal text and field actions.
TmplEmit ==
    /\ InTemplate
    /\ Kind(Tok) # "tmplcall"
    /\ ~ExecFails(Tok)
    /\ stack' = SetTop([Top EXCEPT !.buf = @ \o Emit(Top, Tok), !.tp = @ + 1])
    /\ UNCHANGED <<vm, contextData, globalComputed, vmContext, vmRender, stores,
                   nextId, calls, result, globalWrites>>
    /\ UNCHANGED <<TmplFuncs, writes, functions, ctxDone, interrupted, replace, runs, watchers>>

\* tmp.Execute: the template function templateString (Engine.init).
TmplCall ==
    /\ InTemplate
    /\ Kind(Tok) = "tmplcall"
    /\ TemplateString(stack, Arg(Tok), Top.tmplCtx.Local)
    /\ UNCHANGED <<vm, contextData, globalComputed, vmContext, vmRender, nextId,
                   calls, result, globalWrites>>
    /\ UNCHANGED <<TmplFuncs, writes, functions, ctxDone, interrupted, replace, runs, watchers>>

\* tmp.Execute fails: execTemplate returns the error.
TmplError ==
    /\ InTemplate
    /\ ExecFails(Tok)
    /\ stack' = SetTop(FailedExecute(Top, <<"error calling ", Kind(Tok)>>))
    /\ UNCHANGED <<vm, contextData, globalComputed, vmContext, vmRender, stores,
                   nextId, calls, result, globalWrites>>
    /\ UNCHANGED <<TmplFuncs, writes, functions, ctxDone, interrupted, replace, runs, watchers>>

LoopExitsWithoutCeiling(f, cont, out) == ~cont \/ f.evaluated = out

LoopExitsIgnoringFixedPoint(f, cont, out) == ~cont \/ f.i + 1 >= f.numIterations

\* The pass loop ends: `!cont || evaluated == out`, or i reaches numIterations.
LoopExits(f, cont, out) ==
    ~cont \/ f.evaluated = out \/ f.i + 1 >= f.numIterations

ContextOfPass(f) == f.context

\* The context the invocation puts back: the one saved at entry.
RestoredContext(f) == f.currentContext

NextInputIsSameBody(f, r) == f.input

\* input, cont, err = t.applyRecurseCanary(out): the body of the next pass.
NextInput(f, r) == r.input

\* The template executed: apply the canary, then either run the next pass or
\* leave the loop, reset the context and return the output.
EndPass ==
    /\ stack # << >>
    /\ Top.pc = "tmpl"
    /\ Top.tp > Len(Top.evaluated)
    /\ LET f == Top
           out == f.buf
           r == applyRecurseCanary(out)
           g == [f EXCEPT !.out = out, !.input = NextInput(f, r)]
       IN  IF r.err
             THEN /\ stack' = SetTop(FailedWith(g, "canary",
                                        <<"recurse declared more than once">>, {}))
                  /\ UNCHANGED vmContext
             ELSE IF LoopExits(f, r.cont, out)
               THEN /\ stack' = SetTop([g EXCEPT !.pc = "done"])
                    /\ vmContext' = RestoredContext(f)
               ELSE /\ stack' = SetTop([g EXCEPT
                           !.pc = "pass",
                           !.i = @ + 1,
                           !.localRecursiveComputed =
                               getRecursiveComputedContext(vmContext)])
                    /\ UNCHANGED vmContext
    /\ UNCHANGED <<vm, contextData, globalComputed, vmRender, stores, nextId,
                   calls, result, globalWrites>>
    /\ UNCHANGED <<TmplFuncs, writes, functions, ctxDone, interrupted, replace, runs, watchers>>

(***************************************************************************)
(* Return of an invocation to its caller.                                  *)
(***************************************************************************)
Returning ==
    /\ stack # << >>
    /\ Top.pc \in {"done", "fail"}

Caller == stack[Len(stack) - 1]

Popped(callerFrame) == [SubSeq(stack, 1, Len(stack) - 1) EXCEPT ![Len(stack) - 1] = callerFrame]

\* The entry point returns to the user of the engine; Templator.TemplateFile
\* first hands the output to the write function.
ReturnToEngine ==
    /\ Returning
    /\ Len(stack) = 1
    /\ stack' = << >>
    /\ writes' = Wrote(Top)
    /\ result' = IF ReturnedError(Top)
                     THEN Result(result.op, "error", Top.name,
                                 IF Top.outFile = "" THEN Top.out ELSE << >>,
                                 ErrorText(Top), ErrorIs(Top))
                     ELSE Result(result.op, "ok", Top.name,
                                 IF Top.outFile = "" THEN Top.out ELSE << >>,
                                 << >>, {})
    /\ UNCHANGED <<vm, contextData, globalComputed, vmContext, vmRender, stores,
                   nextId, calls, globalWrites>>
    /\ UNCHANGED <<TmplFuncs, functions, ctxDone, interrupted, replace, runs, watchers>>

\* templateString or templateFile returns into the script that called it
\* (templateFile after the write): on an error it raises a script
\* exception, which the `try` forms catch and the others do not.
ReturnToScript ==
    /\ Returning
    /\ Len(stack) > 1
    /\ Caller.pc = "script"
    /\ writes' = Wrote(Top)
    /\ LET stmt == Stmts(Caller.js)[Caller.ip]
       IN  stack' = Popped(IF ~ReturnedError(Top)
                                \/ Kind(stmt) \in {"trycall", "trycallfile"}
                             THEN [Caller EXCEPT !.ip = @ + 1]
                             ELSE FailedWith(Caller, "script",
                                      InlineScriptError(Caller,
                                          RunError(<<"GoError: ">> \o ErrorText(Top))),
                                      {"ErrRuntime"}))
    /\ UNCHANGED <<vm, contextData, globalComputed, vmContext, vmRender, stores,
                   nextId, calls, result, globalWrites>>
    /\ UNCHANGED <<TmplFuncs, functions, ctxDone, interrupted, replace, runs, watchers>>

\* The template function returns into tmp.Execute: the output is written to
\* the buffer, an error fails the execution.
ReturnToTemplate ==
    /\ Returning
    /\ Len(stack) > 1
    /\ Caller.pc = "tmpl"
    /\ stack' = Popped(IF Top.pc = "done"
                          THEN [Caller EXCEPT !.buf = @ \o Top.out, !.tp = @ + 1]
                          ELSE FailedExecute(Caller,
                                   <<"error calling templateString: ">>
                                       \o Top.errMsg))
    /\ UNCHANGED <<vm, contextData, globalComputed, vmContext, vmRender, stores,
                   nextId, calls, result, globalWrites>>
    /\ UNCHANGED <<TmplFuncs, writes, functions, ctxDone, interrupted, replace, runs, watchers>>

Next ==
    \/ \E data \in GlobalData, outcome \in InitOutcomes : EngineInit(data, outcome)
    \/ \E path \in TemplateNames, data \in LocalData : EngineTemplateString(path, data)
    \/ BeginPass
    \/ BlockStart
    \/ ScriptRender
    \/ ScriptSetLocal
    \/ ScriptSetGlobal
    \/ ScriptSetRecursive
    \/ ScriptCall
    \/ ScriptThrow
    \/ BlockEnd
    \/ EvalDone
    \/ TmplEmit
    \/ TmplCall
    \/ TmplError
    \/ EndPass
    \/ ReturnToEngine
    \/ ReturnToScript
    \/ ReturnToTemplate

Spec == Init /\ [][Next]_vars

\* The same engine driven with the bodies of RecursionNames.
NextRecursion ==
    \/ \E data \in GlobalData, outcome \in InitOutcomes : EngineInit(data, outcome)
    \/ \E path \in RecursionNames, data \in LocalData : EngineTemplateString(path, data)
    \/ BeginPass
    \/ BlockStart
    \/ ScriptRender
    \/ ScriptSetLocal
    \/ ScriptSetGlobal
    \/ ScriptSetRecursive
    \/ ScriptCall
    \/ ScriptThrow
    \/ BlockEnd
    \/ EvalDone
    \/ TmplEmit
    \/ TmplCall
    \/ TmplError
    \/ EndPass
    \/ ReturnToEngine
    \/ ReturnToScript
    \/ ReturnToTemplate

SpecRecursion == Init /\ [][NextRecursion]_vars

\* The same engine driven with the bodies of ErrorNames.
NextErrors ==
    \/ \E data \in GlobalData, outcome \in InitOutcomes : EngineInit(data, outcome)
    \/ \E path \in ErrorNames, data \in LocalData : EngineTemplateString(path, data)
    \/ BeginPass
    \/ BlockStart
    \/ ScriptRender
    \/ ScriptCall
    \/ ScriptUnsetContext
    \/ ScriptThrow
    \/ BlockEnd
    \/ EvalDone
    \/ TmplEmit
    \/ TmplCall
    \/ TmplError
    \/ EndPass
    \/ ReturnToEngine
    \/ ReturnToScript
    \/ ReturnToTemplate

SpecErrors == Init /\ [][NextErrors]_vars

\* The same engine driven with the bodies of FuncTemplateNames.
NextFuncs ==
    \/ \E k \in FuncNames, v \in OptionFunctions : WithTemplateFuncs(k, v)
    \/ \E data \in GlobalData, outcome \in InitOutcomes : EngineInit(data, outcome)
    \/ \E path \in FuncTemplateNames, data \in LocalData :
           EngineTemplateString(path, data)
    \/ BeginPass
    \/ BlockStart
    \/ ScriptRender
    \/ ScriptCall
    \/ ScriptRegister
    \/ ScriptUnregister
    \/ BlockEnd
    \/ EvalDone
    \/ TmplEmit
    \/ EndPass
    \/ ReturnToEngine
    \/ ReturnToScript

SpecFuncs == Init /\ [][NextFuncs]_vars

\* The engine driven through all of its entry points.
NextEngine ==
    \/ \E data \in GlobalData, outcome \in InitOutcomes : EngineInit(data, outcome)
    \/ \E path \in EngineNames, data \in FileData : EngineTemplateString(path, data)
    \/ \E path \in EngineNames, outFile \in OutFiles, data \in FileData :
           EngineTemplateFile(path, outFile, data)
    \/ \E path \in EngineNames, data \in FileData :
           EngineTemplateStringInput("inline", ReadFunc(path), data)
    \/ \E scriptFile \in ScriptFiles : EngineRunScript(scriptFile)
    \/ \E fnName \in FunctionNames : EngineRunFunction(fnName)
    \/ BeginPass
    \/ BlockStart
    \/ ScriptRender
    \/ ScriptSetLocal
    \/ ScriptSetGlobal
    \/ ScriptDefine
    \/ ScriptCall
    \/ ScriptThrow
    \/ BlockEnd
    \/ RunEnd
    \/ EvalDone
    \/ TmplEmit
    \/ EndPass
    \/ ReturnToEngine
    \/ ReturnToScript

SpecEngine == Init /\ [][NextEngine]_vars

\* The engine with the contexts of its calls cancelled at any time.
NextCancel ==
    \/ \E data \in GlobalData, outcome \in InitOutcomes : EngineInit(data, outcome)
    \/ \E path \in CancelNames, data \in FileData : EngineTemplateString(path, data)
    \/ \E c \in Contexts : Cancel(c)
    \/ WatcherInterrupt
    \/ ScriptInterrupted
    \/ BeginPass
    \/ BlockStart
    \/ ScriptRender
    \/ ScriptCall
    \/ BlockEnd
    \/ EvalDone
    \/ TmplEmit
    \/ TmplCall
    \/ EndPass
    \/ ReturnToEngine
    \/ ReturnToScript
    \/ ReturnToTemplate

SpecCancel == Init /\ [][NextCancel]_vars

(***************************************************************************)
(* utils.ReplaceAllStringSubmatchFunc, one loop iteration per step.         *)
(***************************************************************************)
ReplaceTailDropped(r) == << >>

\* return result + str[lastIndex:], nil
ReplaceTail(r) == Slice(r.input, r.lastIndex, Len(r.input))

\* result := "", lastIndex := 0, re.FindAllSubmatchIndex([]byte(str), -1)
ReplaceAllStringSubmatchFunc(str, repl) ==
    /\ replace.pc \in {"idle", "returned"}
    /\ replace' = ReplaceState("loop", str, repl, FindAllSubmatchIndex(str),
                               1, 0, << >>, << >>, << >>, FALSE)
    /\ UNCHANGED <<vm, contextData, globalComputed, vmContext, vmRender, stores,
                   stack, nextId, calls, result, globalWrites>>
    /\ UNCHANGED <<TmplFuncs, writes, functions, ctxDone, interrupted, runs, watchers>>

\* One iteration: the groups of the match are handed to the callback; its
\* error ends the call with "", err, otherwise the span before the match and
\* the replacement are appended and lastIndex moves past the match.
ReplaceMatch ==
    /\ replace.pc = "loop"
    /\ replace.mi <= Len(replace.matches)
    /\ LET v == replace.matches[replace.mi]
           groups == << Slice(replace.input, v.v0, v.v1),
                        Slice(replace.input, v.v0, v.v1),
                        Slice(replace.input, v.g2s, v.g2e) >>
           called == Append(replace.called, replace.mi)
           r == Repl(replace.repl, groups, Len(called))
       IN  replace' =
               IF r.err
                   THEN [replace EXCEPT !.pc = "returned", !.called = called,
                                        !.out = << >>, !.err = TRUE]
               ELSE [replace EXCEPT !.called = called,
                                    !.result = @ \o Splice(replace, r.str),
                                    !.lastIndex = v.v1,
                                    !.mi = @ + 1]
    /\ UNCHANGED <<vm, contextData, globalComputed, vmContext, vmRender, stores,
                   stack, nextId, calls, result, globalWrites>>
    /\ UNCHANGED <<TmplFuncs, writes, functions, ctxDone, interrupted, runs, watchers>>

\* After the last match: return result + str[lastIndex:], nil
ReplaceReturn ==
    /\ replace.pc = "loop"
    /\ replace.mi > Len(replace.matches)
    /\ replace' = [replace EXCEPT !.pc = "returned",
                                  !.out = replace.result \o ReplaceTail(replace)]
    /\ UNCHANGED <<vm, contextData, globalComputed, vmContext, vmRender, stores,
                   stack, nextId, calls, result, globalWrites>>
    /\ UNCHANGED <<TmplFuncs, writes, functions, ctxDone, interrupted, runs, watchers>>

NextReplace ==
    \/ \E str \in ReplaceInputs, repl \in ReplFuncs :
           ReplaceAllStringSubmatchFunc(str, repl)
    \/ ReplaceMatch
    \/ ReplaceReturn

SpecReplace == Init /\ [][NextReplace]_vars

(***************************************************************************)
(* VM.Run and VM.RunFunction with the goroutine each of them starts.  The   *)
(* calls run on one goja runtime: `interrupted` is its interrupt flag,      *)
(* which Runtime.Interrupt sets at any time and which the runtime clears    *)
(* when a running program finds it set.  A program is a sequence of         *)
(* instructions:                                                            *)
(*   <<"op","">>        an instruction that returns                         *)
(*   <<"loop","">>      while (true) {}                                     *)
(*   <<"throw","">>     throw                                               *)
(*   <<"run",p>>        a script function that calls VM.Run on p (require,  *)
(*                      templateString), with the context given to Init     *)
(*   <<"tryrun",p>>     the same inside try { } catch { }                   *)
(***************************************************************************)
RunPrograms == {"quick", "spin", "throws", "runspin", "tryrunquick", "tryrunspin"}

\* The functions RunFunction is called for, by the program that is their body.
RunFunctions == {"quick", "spin"}

Program(name) ==
    CASE name = "quick" -> << <<"op", "">> >>
      [] name = "spin" -> << <<"op", "">>, <<"loop", "">> >>
      [] name = "throws" -> << <<"throw", "">> >>
      [] name = "runspin" -> << <<"run", "spin">>, <<"op", "">> >>
      [] name = "tryrunquick" -> << <<"tryrun", "quick">>, <<"op", "">> >>
      [] name = "tryrunspin" -> << <<"tryrun", "spin">>, <<"loop", "">> >>

\* One call of VM.Run or VM.RunFunction: at "started" the goroutine is
\* launched and the program is not yet running, at "program" RunProgram (or
\* the function) runs, at "send" the call is at `done <- true`, at "returned"
\* the send is over.
NewRun(id, fn, ctx, prog) ==
    [id |-> id, fn |-> fn, ctx |-> ctx, prog |-> prog, ip |-> 1,
     pc |-> "started", err |-> ""]

\* The goroutine of a call: at its select, in time.Sleep, or out of its
\* loop; `at` records where its call was each time it called Interrupt.
NewWatcher(ctx) == [ctx |-> ctx, state |-> "select", at |-> {}]

Cur == runs[Len(runs)]

SetCur(a) == [runs EXCEPT ![Len(runs)] = a]

Ins == Program(Cur.prog)[Cur.ip]

\* The program of the innermost call has a next instruction.
Running ==
    /\ runs # << >>
    /\ Cur.pc = "program"
    /\ Cur.ip <= Len(Program(Cur.prog))

\* Where the call of goroutine w is.
PcOf(w) ==
    IF \E k \in DOMAIN runs : runs[k].id = w
        THEN Only({runs[k].pc : k \in {j \in DOMAIN runs : runs[j].id = w}})
        ELSE "gone"

\* done := make(chan bool); go func(done chan bool) {...}(done)
\* The call and its goroutine are known by the depth of the call; the
\* goroutine of an earlier call at that depth is out of its loop by then.
Started(fn, ctx, prog) ==
    /\ watchers' = Append(SubSeq(watchers, 1, Len(runs)), NewWatcher(ctx))
    /\ runs' = Append(runs, NewRun(Len(runs) + 1, fn, ctx, prog))

\* VM.Run called by the engine with the context of an entry point.
VMRun(prog) ==
    /\ runs = << >>
    /\ calls < MaxCalls
    /\ calls' = calls + 1
    /\ ctxDone' = ctxDone \ {"call"}
    /\ Started("Run", "call", prog)
    /\ UNCHANGED <<vm, contextData, globalComputed, vmContext, vmRender, stores,
                   stack, nextId, result, globalWrites>>
    /\ UNCHANGED <<TmplFuncs, writes, functions, interrupted, replace>>

\* VM.RunFunction called by the engine with the context of an entry point.
VMRunFunction(prog) ==
    /\ runs = << >>
    /\ calls < MaxCalls
    /\ calls' = calls + 1
    /\ ctxDone' = ctxDone \ {"call"}
    /\ Started("RunFunction", "call", prog)
    /\ UNCHANGED <<vm, contextData, globalComputed, vmContext, vmRender, stores,
                   stack, nextId, result, globalWrites>>
    /\ UNCHANGED <<TmplFuncs, writes, functions, interrupted, replace>>

\* The user cancels a context while a call is in progress.
CancelRun(c) ==
    /\ runs # << >>
    /\ c \notin ctxDone
    /\ ctxDone' = ctxDone \cup {c}
    /\ UNCHANGED <<vm, contextData, globalComputed, vmContext, vmRender, stores,
                   stack, nextId, calls, result, globalWrites>>
    /\ UNCHANGED <<TmplFuncs, writes, functions, interrupted, replace, runs, watchers>>

\* res, err := v.Runtime.RunProgram(p.prog) / fn(goja.Undefined(), ...) begins.
StartProgram ==
    /\ runs # << >>
    /\ Cur.pc = "started"
    /\ runs' = SetCur([Cur EXCEPT !.pc = "program"])
    /\ UNCHANGED <<vm, contextData, globalComputed, vmContext, vmRender, stores,
                   stack, nextId, calls, result, globalWrites>>
    /\ UNCHANGED <<TmplFuncs, writes, functions, ctxDone, interrupted, replace, watchers>>

RunOp ==
    /\ Running
    /\ ~interrupted
    /\ Kind(Ins) = "op"
    /\ runs' = SetCur([Cur EXCEPT !.ip = @ + 1])
    /\ UNCHANGED <<vm, contextData, globalComputed, vmContext, vmRender, stores,
                   stack, nextId, calls, result, globalWrites>>
    /\ UNCHANGED <<TmplFuncs, writes, functions, ctxDone, interrupted, replace, watchers>>

\* The program throws: RunProgram returns a *goja.Exception.
RunThrow ==
    /\ Running
    /\ ~interrupted
    /\ Kind(Ins) = "throw"
    /\ runs' = SetCur([Cur EXCEPT !.pc = "send", !.err = "exception"])
    /\ UNCHANGED <<vm, contextData, globalComputed, vmContext, vmRender, stores,
                   stack, nextId, calls, result, globalWrites>>
    /\ UNCHANGED <<TmplFuncs, writes, functions, ctxDone, interrupted, replace, watchers>>

\* The program calls a script function of the engine that calls VM.Run.
RunNested ==
    /\ Running
    /\ ~interrupted
    /\ Kind(Ins) \in {"run", "tryrun"}
    /\ Started("Run", "init", Arg(Ins))
    /\ UNCHANGED <<vm, contextData, globalComputed, vmContext, vmRender, stores,
                   stack, nextId, calls, result, globalWrites>>
    /\ UNCHANGED <<TmplFuncs, writes, functions, ctxDone, interrupted, replace>>

\* The program ran to its end: RunProgram returns and Run is at `done <- true`.
ProgramReturns ==
    /\ runs # << >>
    /\ Cur.pc = "program"
    /\ Cur.ip > Len(Program(Cur.prog))
    /\ runs' = SetCur([Cur EXCEPT !.pc = "send"])
    /\ UNCHANGED <<vm, contextData, globalComputed, vmContext, vmRender, stores,
                   stack, nextId, calls, result, globalWrites>>
    /\ UNCHANGED <<TmplFuncs, writes, functions, ctxDone, interrupted, replace, watchers>>

\* The runtime finds its interrupt flag set before the next instruction: it
\* clears the flag and RunProgram returns an *InterruptedError.
ProgramInterrupted ==
    /\ Running
    /\ interrupted
    /\ interrupted' = FALSE
    /\ runs' = SetCur([Cur EXCEPT !.pc = "send", !.err = "interrupted"])
    /\ UNCHANGED <<vm, contextData, globalComputed, vmContext, vmRender, stores,
                   stack, nextId, calls, result, globalWrites>>
    /\ UNCHANGED <<TmplFuncs, writes, functions, ctxDone, replace, watchers>>

AfterInterruptExits == "exited"

\* Where the goroutine is after `v.Runtime.Interrupt("halt")`: back at the
\* select of its loop.
AfterInterrupt == "select"

\* case <-ctx.Done(): v.Runtime.Interrupt("halt")
WatcherInterrupts(w) ==
    /\ w \in DOMAIN watchers
    /\ watchers[w].state = "select"
    /\ watchers[w].ctx \in ctxDone
    /\ interrupted' = TRUE
    /\ watchers' = [watchers EXCEPT ![w].at = @ \cup {PcOf(w)},
                                    ![w].state = AfterInterrupt]
    /\ UNCHANGED <<vm, contextData, globalComputed, vmContext, vmRender, stores,
                   stack, nextId, calls, result, globalWrites>>
    /\ UNCHANGED <<TmplFuncs, writes, functions, ctxDone, replace, runs>>

\* case <-done: running = false  -- the send of the call and the receive of
\* its goroutine happen together, the channel being unbuffered.
WatcherReceives(w) ==
    /\ w \in DOMAIN watchers
    /\ watchers[w].state = "select"
    /\ PcOf(w) = "send"
    /\ watchers' = [watchers EXCEPT ![w].state = "exited"]
    /\ runs' = [k \in DOMAIN runs |->
                   IF runs[k].id = w THEN [runs[k] EXCEPT !.pc = "returned"]
                   ELSE runs[k]]
    /\ UNCHANGED <<vm, contextData, globalComputed, vmContext, vmRender, stores,
                   stack, nextId, calls, result, globalWrites>>
    /\ UNCHANGED <<TmplFuncs, writes, functions, ctxDone, interrupted, replace>>

\* default: time.Sleep(sleepThreshold)  -- taken when no other case is ready
WatcherSleeps(w) ==
    /\ w \in DOMAIN watchers
    /\ watchers[w].state = "select"
    /\ watchers[w].ctx \notin ctxDone
    /\ PcOf(w) # "send"
    /\ watchers' = [watchers EXCEPT ![w].state = "sleep"]
    /\ UNCHANGED <<vm, contextData, globalComputed, vmContext, vmRender, stores,
                   stack, nextId, calls, result, globalWrites>>
    /\ UNCHANGED <<TmplFuncs, writes, functions, ctxDone, interrupted, replace, runs>>

\* time.Sleep returns
WatcherWakes(w) ==
    /\ w \in DOMAIN watchers
    /\ watchers[w].state = "sleep"
    /\ watchers' = [watchers EXCEPT ![w].state = "select"]
    /\ UNCHANGED <<vm, contextData, globalComputed, vmContext, vmRender, stores,
                   stack, nextId, calls, result, globalWrites>>
    /\ UNCHANGED <<TmplFuncs, writes, functions, ctxDone, interrupted, replace, runs>>

\* Run returns.  A nested call returns into the script function that made
\* it: its error is thrown into the calling program as a Go error, which
\* ends that program unless the call is inside a try.
RunReturns ==
    /\ runs # << >>
    /\ Cur.pc = "returned"
    /\ runs' =
           IF Len(runs) = 1 THEN << >>
           ELSE LET p == runs[Len(runs) - 1]
                    caught == Kind(Program(p.prog)[p.ip]) = "tryrun"
                    q == IF Cur.err = "" \/ caught
                             THEN [p EXCEPT !.ip = @ + 1]
                             ELSE [p EXCEPT !.pc = "send", !.err = "exception"]
                IN  Append(SubSeq(runs, 1, Len(runs) - 2), q)
    /\ UNCHANGED <<vm, contextData, globalComputed, vmContext, vmRender, stores,
                   stack, nextId, calls, result, globalWrites>>
    /\ UNCHANGED <<TmplFuncs, writes, functions, ctxDone, interrupted, replace, watchers>>

\* The depths of the calls: the programs of RunPrograms nest one call in
\* another.
WatcherIds == {1, 2}

ProgramStep ==
    \/ RunOp
    \/ RunThrow
    \/ RunNested
    \/ ProgramReturns
    \/ ProgramInterrupted

NextVM ==
    \/ \E prog \in RunPrograms : VMRun(prog)
    \/ \E prog \in RunFunctions : VMRunFunction(prog)
    \/ \E c \in Contexts : CancelRun(c)
    \/ StartProgram
    \/ ProgramStep
    \/ \E w \in WatcherIds : WatcherInterrupts(w)
    \/ \E w \in WatcherIds : WatcherReceives(w)
    \/ \E w \in WatcherIds : WatcherSleeps(w)
    \/ \E w \in WatcherIds : WatcherWakes(w)
    \/ RunReturns

SpecVM == Init /\ [][NextVM]_vars

\* The scheduler runs every goroutine that can take a step, and a select
\* with several ready cases picks each of them sooner or later.  Nothing
\* obliges the user to cancel a context.
FairSpecVM ==
    /\ SpecVM
    /\ WF_vars(StartProgram)
    /\ WF_vars(ProgramStep)
    /\ WF_vars(RunReturns)
    /\ \A w \in WatcherIds :
           /\ WF_vars(WatcherInterrupts(w))
           /\ WF_vars(WatcherReceives(w))
           /\ WF_vars(WatcherWakes(w))

(***************************************************************************)
(* Properties.                                                             *)
(***************************************************************************)
Frames == {stack[k] : k \in DOMAIN stack}

\* C1: when an invocation returns successfully, whatever the number of passes
\* it ran and whatever nested invocations ran inside it, the VM binding
\* `context` is the value it had when the invocation was entered.
C1_ContextRestoredOnSuccess ==
    \A f \in Frames : f.pc = "done" => vmContext = f.currentContext

\* A nested invocation that ran script blocks returns successfully into the
\* script of its caller, whose own context is current again.
C1_Witness ==
    /\ Len(stack) >= 2
    /\ Top.pc = "done"
    /\ Len(Top.subs) > 0
    /\ Caller.pc = "script"
    /\ vmContext = Caller.context
    /\ vmContext # Top.context

\* C2: when an invocation returns an error from a step after it installed its
\* own context, the VM binding `context` is the value it had at entry.
C2_ContextRestoredOnError ==
    \A f \in Frames : f.pc = "fail" => vmContext = f.currentContext

\* C3: after execSJSBlock returns, with the block's output or with the
\* script's error, the VM binding `render` is the value it had before the
\* block ran.
C3_RenderRestored ==
    (/\ stack # << >>
     /\ \/ Top.pc = "blocks" /\ Top.mi > 1
        \/ Top.pc = "fail" /\ Top.err \in {"script", "compile"})
        => vmRender = Top.currentRender

\* C4: the substitution of a block whose script completed is the strings it
\* passed to render, in call order, joined by single newlines; the empty text
\* when it made no call.
C4_SubstitutionIsJoinedRenders ==
    stack # << >> /\ Top.pc = "blocks" /\ Top.mi > 1 =>
        LET calledRender == Top.calledRender
            sub == Top.subs[Len(Top.subs)]
        IN  /\ Len(sub) = IF calledRender = << >> THEN 0 ELSE 2 * Len(calledRender) - 1
            /\ \A k \in 1..Len(calledRender) : sub[2 * k - 1] = <<"txt", calledRender[k]>>
            /\ \A k \in 1..(Len(calledRender) - 1) : sub[2 * k] = NL

ScenarioReturned ==
    /\ stack # << >>
    /\ Top.pc = "done"
    /\ Top.name = "scenario"
    /\ contextData = "Bob"

\* C5 as stated: the body {{.Global.Name}}\n```sjs\nrender("X")\nsjs```\n with
\* Global.Name = "Bob" renders to exactly "Bob\nX".
C5_ScenarioRendersBobX ==
    ScenarioReturned => Top.out = << <<"txt", "Bob">>, NL, <<"txt", "X">> >>

\* C5 as amended: that body renders to exactly "Bob\nX\n"; the newline that
\* follows the closing fence is not part of the block and stays in the output.
C5_ScenarioRendersBobXNewline ==
    ScenarioReturned => Top.out = << <<"txt", "Bob">>, NL, <<"txt", "X">>, NL >>

C5_Witness ==
    /\ ScenarioReturned
    /\ Top.subs = << << <<"txt", "X">> >> >>

\* The body up to and including the k-th block, with every block replaced by
\* its substitution, in document order.
RECURSIVE SplicedUpTo(_, _)
SplicedUpTo(f, k) ==
    IF k = 0 THEN << >>
    ELSE SplicedUpTo(f, k - 1)
            \o Slice(f.input, IF k = 1 THEN 0 ELSE f.matches[k - 1].v1, f.matches[k].v0)
            \o f.subs[k]

\* C6: within a pass the blocks run one at a time in document order, each to
\* completion before the next starts, and the spliced body keeps the literal
\* spans and the substitutions in document order.
C6_BlocksInDocumentOrder ==
    \A f \in Frames :
        /\ f.pc \in {"blocks", "script"} =>
              /\ Len(f.subs) = f.mi - 1
              /\ Len(f.order) = IF f.pc = "script" THEN f.mi ELSE f.mi - 1
              /\ \A a, b \in 1..Len(f.order) : a < b => f.order[a] < f.order[b]
              /\ \A a \in 1..Len(f.order) :
                     /\ f.input[f.order[a] + 1] = OPEN
                     /\ \A p \in 1..f.order[a] :
                            f.input[p] = OPEN => \E b \in 1..(a - 1) : f.order[b] = p - 1
              /\ f.result = SplicedUpTo(f, f.mi - 1)
        /\ f.pc = "tmpl" =>
              f.evaluated =
                  SplicedUpTo(f, Len(f.matches))
                     \o Slice(f.input,
                              IF f.matches = << >> THEN 0
                              ELSE f.matches[Len(f.matches)].v1,
                              Len(f.input))

\* The third block of a body is running after the first two were spliced
\* around the literal text between them.
C6_Witness ==
    /\ stack # << >>
    /\ Top.pc = "script"
    /\ Top.mi = 3
    /\ Top.subs[2] # << >>
    /\ Top.result # Top.subs[1] \o Top.subs[2]

ScriptFailed(f) == f.pc = "fail" /\ f.err \in {"script", "compile"}

\* C7: when the script of block j fails, the invocation returns an error and
\* the empty string: what block j emitted is not spliced, no later block is
\* executed and the template executor is not invoked for that pass.
C7_FailedBlockLeavesNothing ==
    /\ \A f \in Frames :
          ScriptFailed(f) =>
              /\ f.out = << >>
              /\ Len(f.order) = f.mi
              /\ Len(f.subs) = f.mi - 1
              /\ ~f.executed
    /\ result.status = "error" => result.out = << >>

\* Block 1 of 2 failed after it had emitted a string.
C7_Witness ==
    /\ stack # << >>
    /\ ScriptFailed(Top)
    /\ Top.renderedContent # << >>
    /\ Top.mi < Len(Top.matches)

\* C8: a value a script block writes into LocalComputed is in the
\* LocalComputed data handed to the template executor in the same pass, and
\* is visible to every later script block of that pass.
C8_LocalWritesVisibleInPass ==
    stack # << >> =>
        /\ Top.pc = "tmpl" => Top.written \subseteq Top.tmplCtx.LocalComputed
        /\ Top.pc = "script" => Top.written \subseteq stores[vmContext.LocalComputed]

\* C9: every invocation starts with a fresh, empty LocalComputed store, and
\* the LocalComputed an invocation reads, in its scripts and in its template
\* data, is that store and no other invocation's.
C9_LocalComputedPerInvocation ==
    stack # << >> =>
        /\ Top.passes = 0 => stores[Top.localComputed] = {}
        /\ \A f \in Frames : \A g \in Frames :
               f.ownLocalComputed = g.ownLocalComputed => f = g
        /\ Top.pc = "script" => vmContext.LocalComputed = Top.ownLocalComputed
        /\ Top.pc = "tmpl" =>
               Top.tmplCtx.LocalComputed = stores[Top.ownLocalComputed]

\* C10: every context installed after Init carries the GlobalComputed store
\* created at Init, and every value a script has set in GlobalComputed is
\* visible to the scripts that run afterwards and in the template data of
\* every pass that starts afterwards.
C10_OneGlobalComputed ==
    vm = "ready" =>
        /\ globalComputed = 1
        /\ vmContext.GlobalComputed = globalComputed
        /\ globalWrites \subseteq stores[vmContext.GlobalComputed]
        /\ \A f \in Frames :
               /\ f.passes > 0 => f.context.GlobalComputed = globalComputed
               /\ f.pc = "tmpl" =>
                      f.globalWritesAtExport \subseteq f.tmplCtx.GlobalComputed

\* A later top-level invocation that sets nothing itself has, in its template
\* data, the value an earlier invocation set in GlobalComputed.
C10_Witness ==
    /\ stack # << >>
    /\ calls = 2
    /\ Top.name = "plain"
    /\ Top.pc = "tmpl"
    /\ "g1" \in Top.tmplCtx.GlobalComputed

(***************************************************************************)
(* The pass loop.                                                          *)
(***************************************************************************)
\* The number the directive on the first line of the invocation's body
\* declares (-1 when the body has no directive there).
Declared(f) == isRecursiveTemplate(ReadFunc(f.name))

\* C11: within one invocation, the LocalComputed store installed for pass
\* k+1 is the store left by pass k, and the values the invocation's scripts
\* wrote to LocalComputed in earlier passes are present in every later pass.
C11_LocalComputedKeptAcrossPasses ==
    \A f \in Frames :
        /\ f.passes > 1 /\ f.pc \in {"blocks", "script"} =>
               f.context.LocalComputed = f.localComputed
        /\ f.passes >= 1 => f.writtenBefore \subseteq stores[f.context.LocalComputed]
        /\ f.pc = "tmpl" => f.writtenBefore \subseteq f.tmplCtx.LocalComputed

\* C12: an invocation whose body starts with a directive (declaring N >= 1)
\* begins with a new, empty RecursiveComputed store that is not the
\* caller's, and what its scripts wrote to RecursiveComputed in a pass is
\* readable by the scripts and the template data of the later passes.
C12_RecursiveComputedPerCycle ==
    \A f \in Frames :
        Declared(f) >= 1 =>
            /\ f.ownRecursiveComputed # NoStore
            /\ f.ownRecursiveComputed # f.callerRecursiveComputed
            /\ f.passes = 0 =>
                   /\ f.localRecursiveComputed = f.ownRecursiveComputed
                   /\ stores[f.ownRecursiveComputed] = {}
            /\ f.passes >= 1 =>
                   /\ f.context.RecursiveComputed # NoStore
                   /\ f.recWrittenBefore \subseteq stores[f.context.RecursiveComputed]
            /\ f.pc = "tmpl" => f.recWrittenBefore \subseteq f.tmplCtx.RecursiveComputed

\* C13: an invocation whose body does not start with a directive runs one
\* pass (one script-evaluation step, one template execution) and creates no
\* RecursiveComputed store: the one store it creates is its LocalComputed.
C13_NoDirectiveOnePass ==
    \A f \in Frames :
        Declared(f) = 0 - 1 =>
            /\ f.numIterations = 1
            /\ f.passes <= 1
            /\ f.executions <= 1
            /\ f.pc = "done" => f.passes = 1 /\ f.executions = 1
            /\ f.ownRecursiveComputed = NoStore
            /\ f = Top /\ f.passes = 0 => Len(stores) = f.ownLocalComputed

\* A body with the directive on its third line returned after one pass, its
\* output holding the marker the directive emitted.
C13_Witness ==
    /\ stack # << >>
    /\ Top.pc = "done"
    /\ Declared(Top) = 0 - 1
    /\ Top.passes = 1
    /\ CanaryPositions(Top.out) # {}
    /\ Len(Top.subs) > 0

\* The engine with every enabled step eventually taken.
FairSpecRecursion == SpecRecursion /\ WF_vars(NextRecursion)

\* C14: an invocation whose body starts with `recurse N`, N >= 1, executes
\* at most N+1 passes and terminates, whatever its passes emit.
C14_AtMostNPlusOnePasses ==
    /\ [](\A f \in Frames : Declared(f) >= 1 => f.passes <= Declared(f) + 1)
    /\ (stack # << >> /\ Declared(stack[1]) >= 1) ~> (stack = << >>)

\* A `recurse 1` body whose first pass printed a `recurse 3` action is in
\* its second pass, the marker of that action in its output.
C14_Witness ==
    /\ stack # << >>
    /\ Declared(Top) = 1
    /\ Top.passes = 2
    /\ Top.pc = "done"
    /\ \E p \in CanaryPositions(Top.out) : Top.out[p] = <<"canary", "2">>

\* C15: a body that is `recurse 1` followed by static content is rendered in
\* exactly 2 passes, the second pass's output equal to its input, and the
\* invocation returns.
C15_RecurseOnceStaticTwoPasses ==
    \A f \in Frames :
        f.name = "recstatic" =>
            /\ f.passes <= 2
            /\ f.pc # "fail"
            /\ f.pc = "done" =>
                   /\ f.passes = 2
                   /\ f.executions = 2
                   /\ f.out = f.evaluated
                   /\ f.out = << NL, <<"txt", "s">> >>

C15_Witness ==
    /\ stack # << >>
    /\ Top.name = "recstatic"
    /\ Top.pc = "done"
    /\ Top.i = 1

\* The template of a pass has been executed.
AfterExecution ==
    /\ stack # << >>
    /\ Top.pc = "tmpl"
    /\ Top.tp > Len(Top.evaluated)

\* C16: when the output of a pass's template execution equals the evaluated
\* input of that pass, no further pass is executed, whatever marker the
\* output holds.
C16_FixedPointStops ==
    [][AfterExecution /\ Top.buf = Top.evaluated => Top'.pc # "pass"]_vars

\* An invocation returned at a fixed point with a marker for more passes in
\* its output and passes left under its ceiling.
C16_Witness ==
    /\ stack # << >>
    /\ Top.pc = "done"
    /\ Top.out = Top.evaluated
    /\ Top.i + 1 < Top.numIterations
    /\ \E p \in CanaryPositions(Top.out) : Atoi(Arg(Top.out[p])) > 0

\* The number the marker in the output of the executed pass encodes.
MarkerNum == getCanaryNum(Top.buf).num

OneMarker == AfterExecution /\ ~getCanaryNum(Top.buf).err

\* The output with its marker replaced by `replacement`.
MarkerReplaced(out, replacement) ==
    LET p == Min(CanaryPositions(out))
    IN  SubSeq(out, 1, p - 1) \o replacement \o SubSeq(out, p + 1, Len(out))

\* C17 as stated: after a pass, a marker encoding n > 0 is rewritten to n-1
\* and another pass runs; a marker encoding 0 is stripped and no other pass
\* runs; without a marker no other pass runs.
C17_MarkerZeroStops ==
    [][OneMarker =>
          /\ MarkerNum > 0 =>
                 /\ Top'.input = MarkerReplaced(Top.buf, << <<"canary", Itoa(MarkerNum - 1)>> >>)
                 /\ Top'.pc = "pass"
          /\ MarkerNum = 0 =>
                 /\ Top'.input = MarkerReplaced(Top.buf, << >>)
                 /\ Top'.pc # "pass"
          /\ MarkerNum = 0 - 1 => Top'.pc # "pass"]_vars

\* C17 as amended: a marker encoding n > 0 is rewritten to n-1, a marker
\* encoding 0 is stripped, and in both cases another pass runs unless the
\* output equals the pass's evaluated input or the invocation has run its
\* numIterations passes; without a marker no other pass runs.
C17_MarkerDecrementedOrStripped ==
    [][OneMarker =>
          /\ MarkerNum > 0 =>
                 Top'.input = MarkerReplaced(Top.buf, << <<"canary", Itoa(MarkerNum - 1)>> >>)
          /\ MarkerNum = 0 => Top'.input = MarkerReplaced(Top.buf, << >>)
          /\ MarkerNum >= 0 =>
                 (Top'.pc = "pass" <=>
                     Top.buf # Top.evaluated /\ Top.i + 1 < Top.numIterations)
          /\ MarkerNum = 0 - 1 => Top'.pc # "pass"]_vars

\* The marker of the first pass encoded 0, was stripped, and the second pass
\* is about to run.
C17_Witness ==
    /\ stack # << >>
    /\ Top.pc = "pass"
    /\ Top.i = 1
    /\ \E p \in CanaryPositions(Top.out) : Top.out[p] = <<"canary", "0">>
    /\ CanaryPositions(Top.input) = {}

\* The body has directives, none of them on its first line.
DirectiveOnLaterLine(body) ==
    /\ \E p \in 2..Len(body) : Kind(body[p]) = "recurse"
    /\ \A p \in 1..Len(FirstLine(body)) : Kind(body[p]) # "recurse"

LaterDirectives(body) ==
    {Atoi(Arg(body[p])) : p \in {q \in 1..Len(body) : Kind(body[q]) = "recurse"}}

C19_RecurseZeroRenders ==
    \A f \in Frames :
        Declared(f) = 0 =>
            /\ f.passes <= 1
            /\ f.pc # "fail"
            /\ f.pc = "done" => f.passes = 1

\* C19 as amended: a body whose first line is `recurse 0` runs one pass, in
\* which executing the directive fails, and the invocation returns the error
\* and the empty string.
C19_RecurseZeroFails ==
    \A f \in Frames :
        Declared(f) = 0 =>
            /\ f.numIterations = 1
            /\ f.passes <= 1
            /\ f.pc # "done"
            /\ f.pc = "fail" => f.err = "exec" /\ f.out = << >> /\ f.executions = 1

C19_Witness ==
    /\ stack # << >>
    /\ Top.name = "rec0"
    /\ Top.pc = "fail"
    /\ Top.err = "exec"

\* The body executed once, directly, as a template over `data`.
RECURSIVE ExecutedFrom(_, _, _)
ExecutedFrom(body, data, k) ==
    IF k > Len(body) THEN << >>
    ELSE Emit([tmplCtx |-> data], body[k]) \o ExecutedFrom(body, data, k + 1)

NoBlocksNoDirective(body) ==
    /\ \A p \in 1..Len(body) :
           body[p] = OPEN => \A c \in (p + 1)..Len(body) : body[c] # CLOSE
    /\ \A p \in 1..Len(body) : Kind(body[p]) \notin {"recurse", "tmplcall", "bad"}

\* C20: for a body with no script block and no directive, no script is run,
\* the body handed to the template executor is the input body, the line
\* delta is 0, and the result is that of executing the body once as a
\* template over the Global and Local data.
C20_NoBlocksIsPlainTemplate ==
    \A f \in Frames :
        NoBlocksNoDirective(ReadFunc(f.name)) =>
            /\ f.order = << >>
            /\ f.calledRender = << >>
            /\ f.pc \in {"tmpl", "done"} =>
                   /\ f.evaluated = ReadFunc(f.name)
                   /\ f.replacedLines = 0
            /\ f.pc # "fail"
            /\ f.pc = "done" =>
                   /\ f.executions = 1
                   /\ f.out = ExecutedFrom(ReadFunc(f.name),
                                   [Global |-> contextData, Local |-> f.inputData,
                                    GlobalComputed |-> Export(globalComputed),
                                    LocalComputed |-> {},
                                    RecursiveComputed |-> Export(f.callerRecursiveComputed)],
                                   1)

\* A body with an opening fence that is never closed returned, the fence in
\* its output.
C20_Witness ==
    /\ stack # << >>
    /\ Top.name = "unclosed"
    /\ Top.pc = "done"
    /\ \E p \in 1..Len(Top.out) : Top.out[p] = OPEN
    /\ Top.out[1] = <<"txt", Top.inputData>>

\* Every opening fence of the body lacks a closing fence after it.
OnlyUnclosedFences(body) ==
    /\ \E p \in 1..Len(body) : body[p] = OPEN
    /\ \A p \in 1..Len(body) :
           body[p] = OPEN => \A c \in (p + 1)..Len(body) : body[c] # CLOSE

\* C21: a body whose opening fence has no closing fence before the end of
\* the body yields zero script blocks: no script is run, extraction raises
\* no error, and the body handed to the template executor is the pass body
\* itself, the literal fence text in it.
C21_UnclosedFenceYieldsNoBlock ==
    \A f \in Frames :
        (f.pc \in {"blocks", "script", "tmpl", "fail"}
            /\ OnlyUnclosedFences(f.input)) =>
            /\ f.matches = << >>
            /\ f.order = << >>
            /\ f.calledRender = << >>
            /\ f.err \notin {"script", "compile"}
            /\ f.pc = "tmpl" =>
                   /\ f.evaluated = f.input
                   /\ \E p \in 1..Len(f.evaluated) : f.evaluated[p] = OPEN

\* The template executor is past the unclosed fence of a body that also has
\* a stray closing fence before it.
C21_Witness ==
    /\ stack # << >>
    /\ Top.name = "closefirst"
    /\ Top.pc = "tmpl"
    /\ OnlyUnclosedFences(Top.input)
    /\ \E p \in 1..(Top.tp - 1) : Top.evaluated[p] = OPEN

\* The sum, over the first k blocks of the pass, of the newlines in the
\* block's raw text minus the newlines in its substitution.
RECURSIVE SumDelta(_, _)
SumDelta(f, k) ==
    IF k = 0 THEN 0
    ELSE SumDelta(f, k - 1)
           + CountNL(Slice(f.input, f.matches[k].v0, f.matches[k].v1))
           - CountNL(f.subs[k])

\* The execution of f's spliced body failed at the action f.tp.
ExecutionFailed(f) == f.pc = "fail" /\ f.err = "exec"

\* The line, in the body of the pass, of the action the executor failed at,
\* for an action after the last block.
OriginalLine(f) ==
    1 + CountNL(SubSeq(f.input, 1, f.tp + Len(f.input) - Len(f.evaluated) - 1))

\* C22: when the execution of a pass fails, the line delta is the sum over
\* the blocks of (newlines in the raw block) - (newlines in the
\* substitution), and the error's locator `template: <name>:N` reads
\* N + delta, N the line of the failing action in the spliced body; with
\* one 3-line block replaced by one line, that is N + 2, the line of the
\* action in the original body.
C22_LocatorIsLinePlusDelta ==
    \A f \in Frames :
        ExecutionFailed(f) =>
            LET delta == SumDelta(f, Len(f.matches))
                loc == Locator(f.name, LineOf(f) + delta)
            IN  /\ f.replacedLines = delta
                /\ Len(f.errMsg) > Len(loc) + 1
                /\ SubSeq(f.errMsg, 2, Len(loc) + 1) = loc
                /\ f.errMsg[Len(loc) + 2] = ": executing: "
                /\ (/\ Len(f.matches) = 1
                    /\ CountNL(Slice(f.input, f.matches[1].v0, f.matches[1].v1)) = 2
                    /\ CountNL(f.subs[1]) = 0
                    /\ f.tp + Len(f.input) - Len(f.evaluated) > f.matches[1].v1)
                      => /\ delta = 2
                         /\ LineOf(f) + delta = OriginalLine(f)

\* C23: adjustLineNumber leaves everything outside the locators of the
\* current template as it was: the text before the first such locator and
\* the text after the last one, which holds the locators of nested
\* templates, are those of the executor's error.
C23_OnlyOwnLocatorsChange ==
    \A f \in Frames :
        ExecutionFailed(f) =>
            LET raw == f.rawErr
                adj == SubSeq(f.errMsg, 2, Len(f.errMsg))
                ms == FindLocatorsFrom(raw, f.name, 0)
                tail == Len(raw) - ms[Len(ms)].v1
            IN  /\ ms # << >>
                /\ SubSeq(adj, 1, ms[1].v0) = SubSeq(raw, 1, ms[1].v0)
                /\ Len(adj) >= tail
                /\ SubSeq(adj, Len(adj) - tail + 1, Len(adj))
                     = SubSeq(raw, ms[Len(ms)].v1 + 1, Len(raw))

\* C27: a panic raised inside TemplateStringInput never leaves it: the
\* invocation that panicked is an invocation that failed, and its error
\* carries the message "failed to render template: " and the panic value.
C27_PanicBecomesError ==
    \A f \in Frames :
        /\ f.pc # "panic"
        /\ f.panicked =>
               /\ f.pc = "fail"
               /\ f.err = "panic"
               /\ Len(f.errMsg) = 2
               /\ f.errMsg[1] = "failed to render template: "
               /\ f.errMsg[2] # ""

\* A nested invocation panicked (its script had unset `context`) and is
\* returning the error to the script that called it.
C27_Witness ==
    /\ Len(stack) > 1
    /\ Top.panicked
    /\ Top.pc = "fail"
    /\ Caller.pc = "script"
    /\ vmContext = Undefined

\* The frame of the running script after the step.
SameFrameNext == stack'[Len(stack)]

\* C24: a registerTemplateFunc of a function under a name that is in the
\* table fails with ErrReserved and leaves the table as it is; under a name
\* that is not in the table it binds the function.  An
\* unregisterTemplateFunc of a name in the table removes it, so the next
\* registerTemplateFunc of that name succeeds.
C24_RegisterRejectsBoundName ==
    [][/\ (InScript /\ Kind(Stmt) \in {"register", "tryregister"}
             /\ Stmt[3] \in ScriptFunctions) =>
           IF TmplFuncs[Stmt[2]] # "absent"
               THEN /\ TmplFuncs' = TmplFuncs
                    /\ SameFrameNext.thrown = "ErrReserved"
                    /\ Kind(Stmt) = "register" => SameFrameNext.pc = "fail"
               ELSE /\ TmplFuncs' = [TmplFuncs EXCEPT ![Stmt[2]] = Stmt[3]]
                    /\ SameFrameNext.thrown = ""
                    /\ SameFrameNext.pc = "script"
       /\ (InScript /\ Kind(Stmt) \in {"unregister", "tryunregister"}
             /\ TmplFuncs[Stmt[2]] # "absent") =>
           /\ TmplFuncs' = [TmplFuncs EXCEPT ![Stmt[2]] = "absent"]
           /\ SameFrameNext.thrown = ""
      ]_vars

\* The script of "regtest" has registered testMethod, been refused a second
\* registration, unregistered the name and bound the new function to it.
C24_Witness ==
    /\ stack # << >>
    /\ Top.name = "regtest"
    /\ Top.pc = "script"
    /\ Top.ip = 6
    /\ TmplFuncs["testMethod"] = "newTestMethod()"

\* C25: an unregisterTemplateFunc of a name that is not in the table raises
\* an error in the calling script at once and leaves the table as it is.
C25_UnregisterUnknownFails ==
    [][(InScript /\ Kind(Stmt) \in {"unregister", "tryunregister"}
          /\ TmplFuncs[Stmt[2]] = "absent") =>
           /\ TmplFuncs' = TmplFuncs
           /\ SameFrameNext.thrown = "ErrReserved"
           /\ Kind(Stmt) = "unregister" => SameFrameNext.pc = "fail"
      ]_vars

\* The script of "unreg" caught the error of unregistering a name that was
\* not in the table and went on.
C25_Witness ==
    /\ stack # << >>
    /\ Top.name = "unreg"
    /\ Top.pc = "script"
    /\ Top.ip = 2
    /\ Top.thrown = "ErrReserved"
    /\ TmplFuncs["testMethod"] = "absent"

\* C26: the write function is called only by the return of a TemplateFile
\* invocation whose passes have all rendered, with the output of the last
\* pass, once for that invocation; such a return always calls it, and the
\* return of an invocation that failed never does.
C26_WriteOnlyAfterSuccess ==
    [][/\ writes' # writes =>
            /\ stack # << >>
            /\ Top.pc = "done"
            /\ Top.outFile # ""
            /\ Top.passes > 0
            /\ Len(stack') = Len(stack) - 1
            /\ writes' = Append(writes, [file |-> Top.outFile, content |-> Top.out,
                                          inv |-> Top.ownLocalComputed])
            /\ \A k \in 1..Len(writes) : writes[k].inv # Top.ownLocalComputed
       /\ (stack # << >> /\ Len(stack') < Len(stack) /\ Top.outFile # "") =>
            IF Top.pc = "done" THEN Len(writes') = Len(writes) + 1
                               ELSE writes' = writes
       /\ (stack # << >> /\ Top.outFile # "" /\ Len(stack') >= Len(stack)) =>
            writes' = writes
      ]_vars

\* broken.js wrote the two-pass template "recstatic" to its file once and
\* then failed on the template "fail", for which nothing was written.
C26_Witness ==
    /\ stack = << >>
    /\ result.op = "RunScript"
    /\ result.path = "broken.js"
    /\ result.status = "error"
    /\ Len(writes) = 1
    /\ writes[1].file = "out.txt"
    /\ writes[1].content = <<NL, <<"txt", "s">> >>

\* C29: while e.vm is nil every RunScript, RunFunction, TemplateFile,
\* TemplateString and TemplateStringInput call returns ErrNotInitialized and
\* changes nothing else; once e.vm is set every Init call returns
\* ErrAlreadyInitialized and leaves the VM, the Global data, the
\* GlobalComputed store and everything else as they were.
C29_InitializedOrNot ==
    [][/\ (vm = "nil" /\ calls' # calls) =>
            /\ result'.status = "ErrNotInitialized"
            /\ result'.errIs = {"ErrNotInitialized"}
            /\ result'.op \in {"RunScript", "RunFunction", "TemplateFile",
                               "TemplateString", "TemplateStringInput"}
            /\ UNCHANGED <<vm, contextData, globalComputed, vmContext, vmRender,
                           stores, stack, nextId, globalWrites, TmplFuncs, writes,
                           functions>>
       /\ (vm # "nil" /\ stack = << >> /\ calls' = calls) =>
            /\ result'.status = "ErrAlreadyInitialized"
            /\ result'.errIs = {"ErrAlreadyInitialized"}
            /\ UNCHANGED <<vm, contextData, globalComputed, vmContext, vmRender,
                           stores, stack, nextId, globalWrites, TmplFuncs, writes,
                           functions>>
       /\ vm' \in {"nil", "ready"}
      ]_vars

\* A second Init was refused after a call had been served between the two.
C29_Witness ==
    /\ result.status = "ErrAlreadyInitialized"
    /\ calls > 0
    /\ vm = "ready"
    /\ writes # << >>

\* C30: while a block's script runs, the strings given to the block's own
\* emit function are exactly the render calls that script has made, in
\* order: a nested invocation's blocks add nothing to it, and the calls the
\* script makes before and after a nested invocation all reach it.
C30_RenderReachesOwnBlock ==
    \A f \in Frames :
        (f.kind = "template" /\ f.pc = "script") => f.renderedContent = f.calledRender

\* The error of an invocation is a cancellation error a caller can tell from
\* a script runtime failure.
IsCancellation(f) == "InterruptedError" \in f.errIs /\ "ErrRuntime" \notin f.errIs

\* C28: a program the runtime finds interrupted does not go on: its Run
\* returns an error and the invocation fails with an error that is not
\* ErrRuntime; and when an invocation that failed so returns into a script
\* that fails of it, that invocation's error is not ErrRuntime either.
C28_CancellationIsNotRuntimeFailure ==
    [][/\ (Executing /\ interrupted /\ stack' # stack) =>
            /\ SameFrameNext.pc = "fail"
            /\ IsCancellation(SameFrameNext)
       /\ (/\ Len(stack) > 1
           /\ Top.pc = "fail"
           /\ IsCancellation(Top)
           /\ Len(stack') = Len(stack) - 1
           /\ stack'[Len(stack')].pc = "fail") =>
              "ErrRuntime" \notin stack'[Len(stack')].errIs
      ]_vars

\* The passes of an invocation that is in its loop.
InPass(f) == f.pc \in {"blocks", "script", "tmpl"}

\* C31: a pass after the first works on the output of the pass before it,
\* the one marker of that output decremented or stripped, and on nothing
\* else for as long as it runs; the pass counter moves only when the
\* template of the running pass has been executed to its end, and by one.
C31_PassesSequentialAndChained ==
    /\ [](\A f \in Frames :
             (f.i >= 1 /\ (f.pc = "pass" \/ InPass(f))) =>
                 /\ Cardinality(CanaryPositions(f.out)) = 1
                 /\ LET n == Atoi(Arg(f.out[Min(CanaryPositions(f.out))]))
                    IN  f.input = MarkerReplaced(f.out,
                                     IF n > 0 THEN << <<"canary", Itoa(n - 1)>> >>
                                     ELSE << >>))
    /\ [][\A k \in 1..Len(stack) :
             k <= Len(stack') =>
                 /\ stack'[k].i # stack[k].i =>
                        /\ k = Len(stack)
                        /\ AfterExecution
                        /\ Len(stack') = Len(stack)
                        /\ stack'[k].i = stack[k].i + 1
                        /\ stack'[k].pc = "pass"
                        /\ stack'[k].out = stack[k].buf
                 /\ stack'[k].passes # stack[k].passes =>
                        /\ stack[k].pc = "pass"
                        /\ stack[k].passes = stack[k].i
                        /\ stack'[k].passes = stack[k].passes + 1
                 /\ (InPass(stack[k]) /\ InPass(stack'[k])) =>
                        stack'[k].input = stack[k].input
      ]_vars

\* The second pass of "recok" is executing its template.
C31_Witness ==
    /\ stack # << >>
    /\ Top.name = "recok"
    /\ Top.i = 1
    /\ Top.passes = 2
    /\ Top.pc = "tmpl"
    /\ Top.tp > 1

\* C32: when the output of an executed pass holds more than one marker the
\* invocation fails there with the "declared once" error and no output, and
\* no invocation is ever between passes or returned with such an output
\* taken as the result of a pass that went on.
C32_TwoMarkersFail ==
    /\ [][(AfterExecution /\ Cardinality(CanaryPositions(Top.buf)) > 1) =>
             /\ Len(stack') = Len(stack)
             /\ Top'.pc = "fail"
             /\ Top'.err = "canary"
             /\ Top'.out = << >>
             /\ Top'.i = Top.i
         ]_vars
    /\ [](\A f \in Frames :
             (f.pc = "pass" /\ f.i >= 1) => Cardinality(CanaryPositions(f.out)) <= 1)

\* The first pass of "rectwice" printed two markers and the invocation
\* failed.
C32_Witness ==
    /\ stack # << >>
    /\ Top.name = "rectwice"
    /\ Top.pc = "fail"
    /\ Top.err = "canary"
    /\ Top.passes = 1
    /\ Top.out = << >>

\* The offsets of the body at which the text `block` occurs.
Occurrences(body, block) ==
    {j \in 0..(Len(body) - Len(block)) : Slice(body, j, j + Len(block)) = block}

\* The 1-based line of offset j of the body.
LineAt(body, j) == 1 + CountNL(Slice(body, 0, j))

\* C33: the starting line given to the runtime for a block is the line, in
\* the body of the pass, of the first occurrence of the block's text; it is
\* the line the block's own text starts on when that text occurs nowhere
\* earlier, and two blocks of identical text get the same line.
C33_StartLineOfFirstOccurrence ==
    \A f \in Frames :
        (f.pc = "script" /\ f.kind = "template") =>
            LET m == f.matches[f.mi]
                first == Min(Occurrences(f.input, f.js))
            IN  /\ f.js = Slice(f.input, m.g2s, m.g2e)
                /\ f.startingLineNumber = LineAt(f.input, first)
                /\ first = m.g2s => f.startingLineNumber = LineAt(f.input, m.g2s)
                /\ \A k \in 1..(f.mi - 1) :
                       Slice(f.input, f.matches[k].g2s, f.matches[k].g2e) = f.js =>
                           f.startingLineNumber = LineAt(f.input, f.matches[k].g2s)

\* The second block of "errbetween", whose text is that of the first block,
\* runs with the line of the first block, not with its own.
C33_Witness ==
    /\ stack # << >>
    /\ Top.name = "errbetween"
    /\ Top.pc = "script"
    /\ Top.mi = 2
    /\ Top.startingLineNumber = 2
    /\ LineAt(Top.input, Top.matches[2].g2s) = 6

\* The number of units the splice of the first k blocks took out of the body.
RECURSIVE UnitsRemoved(_, _)
UnitsRemoved(f, k) ==
    IF k = 0 THEN 0
    ELSE UnitsRemoved(f, k - 1)
           + (f.matches[k].v1 - f.matches[k].v0) - Len(f.subs[k])

\* The blocks whose substitution lies before the action the executor failed at.
BlocksBefore(f) ==
    {k \in 1..Len(f.matches) :
        f.matches[k].v0 - UnitsRemoved(f, k - 1) + Len(f.subs[k]) < f.tp}

\* The line, in the body of the pass, of the action the executor failed at.
FailingLine(f) ==
    LET pos == f.tp + UnitsRemoved(f, Cardinality(BlocksBefore(f)))
    IN  1 + CountNL(SubSeq(f.input, 1, pos - 1))

\* C38: the locator of a template-execution error reads the line the failing
\* action has in the body of the pass, whether the action lies before the
\* first block, between two blocks or after the last one.
C38_ReportedLineIsOriginalLine ==
    \A f \in Frames :
        ExecutionFailed(f) =>
            LET loc == Locator(f.name, FailingLine(f))
            IN  /\ Len(f.errMsg) > Len(loc)
                /\ SubSeq(f.errMsg, 2, Len(loc) + 1) = loc

\* Where unit p of the input (outside every match) lands in the output: it
\* is shifted by what the replacements of the matches before it added.
ReplShift(r, p) ==
    LET before == {k \in 1..Len(r.matches) : r.matches[k].v1 < p}
        RECURSIVE sum(_)
        sum(S) == IF S = {} THEN 0
                  ELSE LET k == CHOOSE x \in S : TRUE
                           m == r.matches[k]
                       IN  Len(Repl(r.repl,
                                    << Slice(r.input, m.v0, m.v1),
                                       Slice(r.input, m.v0, m.v1),
                                       Slice(r.input, m.g2s, m.g2e) >>, k).str)
                               - (m.v1 - m.v0) + sum(S \ {k})
    IN  sum(before)

\* C34: ReplaceAllStringSubmatchFunc calls the callback for the matches in
\* order, left to right; when no call fails, every unit outside the matches
\* is copied unchanged to its shifted place, every match is replaced by what
\* the callback returned for it, nothing else is in the output, and the
\* callback that returns the whole match reproduces the input; when a call
\* fails the function returns the empty string and the error, and the
\* callback has been called for no later match.
C34_EveryMatchReplacedInOrder ==
    replace.pc = "returned" =>
        LET r == replace
            n == Len(r.matches)
            groups(k) == << Slice(r.input, r.matches[k].v0, r.matches[k].v1),
                            Slice(r.input, r.matches[k].v0, r.matches[k].v1),
                            Slice(r.input, r.matches[k].g2s, r.matches[k].g2e) >>
            failing == {k \in 1..n : Repl(r.repl, groups(k), k).err}
            outside == {p \in 1..Len(r.input) :
                           \A k \in 1..n : p <= r.matches[k].v0 \/ p > r.matches[k].v1}
        IN  /\ r.called = [k \in 1..Len(r.called) |-> k]
            /\ r.err <=> failing # {}
            /\ r.err =>
                   /\ r.out = << >>
                   /\ Len(r.called) = Min(failing)
            /\ ~r.err =>
                   /\ Len(r.called) = n
                   /\ Len(r.out) = Len(r.input) + ReplShift(r, Len(r.input) + 1)
                   /\ \A p \in outside : r.out[p + ReplShift(r, p)] = r.input[p]
                   /\ \A k \in 1..n :
                          LET to == Repl(r.repl, groups(k), k).str
                              at == r.matches[k].v0 + ReplShift(r, r.matches[k].v0 + 1)
                          IN  SubSeq(r.out, at + 1, at + Len(to)) = to
                   /\ r.repl = "match" => r.out = r.input

\* A call with two matches and text after the last one has returned the
\* input with both matches replaced by the constant.
C34_Witness ==
    /\ replace.pc = "returned"
    /\ Len(replace.matches) = 2
    /\ ~replace.err
    /\ replace.repl = "test"
    /\ replace.lastIndex < Len(replace.input)
    /\ replace.out # replace.input

\* C35: once Init has returned, the four names Init binds denote the
\* engine's own functions, whatever options were given and whatever scripts
\* registered or unregistered.
C35_ReservedNamesKeepBuiltins ==
    Initialized => \A n \in Builtins : TmplFuncs[n] = "builtin"

\* C36: the output a TemplateStringInput returns without an error holds no
\* recursion marker, however its pass loop ended.
C36_ReturnedOutputHasNoMarker ==
    \A k \in DOMAIN stack :
        stack[k].pc = "done" => CanaryPositions(stack[k].out) = {}

\* C37: the context that is current always has two different stores as its
\* LocalComputed and its GlobalComputed, and a script's write to
\* context.LocalComputed leaves the GlobalComputed store as it was.
C37_LocalAndGlobalStoresDistinct ==
    /\ [](vmContext # Undefined =>
              vmContext.LocalComputed # vmContext.GlobalComputed)
    /\ [][(InScript /\ Kind(Stmt) = "setLocal") =>
              stores'[globalComputed] = stores[globalComputed]]_vars

\* The call of depth id is in progress.
InProgress(id) == id \in DOMAIN runs

\* The call of depth id has returned and its goroutine is out of its loop.
RunOver(id) ==
    /\ ~InProgress(id)
    /\ id \in DOMAIN watchers
    /\ watchers[id].state = "exited"

\* No goroutine is in its loop once its call has returned.
NoWatcherOutlivesItsRun ==
    \A w \in DOMAIN watchers : ~InProgress(w) => watchers[w].state = "exited"

\* C39 as stated: every call that started its goroutine returns, never
\* blocking for ever at `done <- true`, and no goroutine keeps running after
\* its call has returned.
C39_EveryRunReturns ==
    /\ []NoWatcherOutlivesItsRun
    /\ \A id \in WatcherIds : InProgress(id) ~> RunOver(id)

\* C39 amended: a call whose program has returned (it is at `done <- true`)
\* or whose context is cancelled returns, its goroutine leaving its loop
\* through the receive of `done`, and no goroutine keeps running after its
\* call has returned; a program that loops with no context cancelled keeps
\* its call from returning.
C39_ReturnsOncePromptedTo ==
    /\ []NoWatcherOutlivesItsRun
    /\ \A id \in WatcherIds :
           /\ (InProgress(id) /\ runs[id].pc = "send") ~> RunOver(id)
           /\ (InProgress(id) /\ runs[id].ctx \in ctxDone) ~> RunOver(id)

\* A cancelled call and the call nested in it have both returned, the
\* goroutine of each having called Interrupt before it received `done`.
C39_Witness ==
    /\ runs = << >>
    /\ Len(watchers) = Cardinality(WatcherIds)
    /\ \A w \in DOMAIN watchers :
           /\ watchers[w].state = "exited"
           /\ watchers[w].at # {}

\* C40: a goroutine calls Interrupt only while the program of its call is
\* running, no interrupt is pending when no call is in progress, and a
\* program is interrupted only if the context of its call or of a call
\* around it is cancelled.
C40_InterruptOnlyWhileProgramRuns ==
    /\ \A w \in DOMAIN watchers : watchers[w].at \subseteq {"program"}
    /\ runs = << >> => ~interrupted
    /\ \A k \in DOMAIN runs :
           runs[k].err = "interrupted" =>
               \E j \in 1..k : runs[j].ctx \in ctxDone

====
